---- MODULE Spec2Model ----
(***************************************************************************)
(* Model of the document expiry job of the HR compliance backend           *)
(* (src/src/jobs/documentExpiryJob.ts) together with the notification      *)
(* service it calls (src/src/services/notificationService.ts).             *)
(*                                                                         *)
(* One action per await of the job: between two awaits the JavaScript      *)
(* code runs without interruption, so the synchronous code that follows an *)
(* await (counters, loop control, catch blocks) is part of the action.     *)
(* Time is counted in ticks, DayLen ticks to the calendar day.             *)
(*                                                                         *)
(* Further parts, each with a specification of its own: the compliance     *)
(* views and the dashboard routes (ComplianceSpec), the password reset     *)
(* flow (ResetSpec), the invitation flow (InviteSpec) and the registry of  *)
(* event streams (StreamSpec).                                             *)
(***************************************************************************)
EXTENDS Integers, Sequences, FiniteSets, Bags, TLC

VARIABLES now, enabled, cronJob, run, calls, notifs, mail, selected, failures, response,
          users, userOfEmployee, invites, resetTokens, reset, accept,
          connections, responses, millis

\* The accounts and their tokens; the registry of event streams.
authVars == <<users, userOfEmployee, invites, resetTokens, reset, accept>>
sseVars == <<connections, responses, millis>>

vars == <<now, enabled, cronJob, run, calls, notifs, mail, selected, failures, response,
          authVars, sseVars>>

NULL == "null"

Elements(q) == { q[i] : i \in 1..Len(q) }

\* ------------------------------------------------------------------ bounds
DayLen == 2
MaxNow == 2
MaxFailures == 1
\* Longest list handed to a compliance calculator.
MaxList == 3
\* Milliseconds that pass, streams that are opened, events written to one.
MaxMillis == 1
MaxResponses == 3
MaxReceived == 2

\* ------------------------------------------------------- the stored world
\* A nullable timestamp is <<>> (null) or <<t>>.
Organizations == <<"o1", "o2">>

Users ==
  ( "u1" :> [organizationId |-> "o1", role |-> "USER",       isActive |-> TRUE,  email |-> "u1"] @@
    "u2" :> [organizationId |-> "o1", role |-> "HR",         isActive |-> TRUE,  email |-> "u2"] @@
    "u3" :> [organizationId |-> "o1", role |-> "ADMIN",      isActive |-> TRUE,  email |-> "u3"] @@
    "u4" :> [organizationId |-> "o1", role |-> "SUPERADMIN", isActive |-> FALSE, email |-> "u4"] @@
    "u5" :> [organizationId |-> "o2", role |-> "USER",       isActive |-> TRUE,  email |-> "u5"] @@
    "u6" :> [organizationId |-> "o2", role |-> "USER",       isActive |-> TRUE,  email |-> "u6"] @@
    "u7" :> [organizationId |-> "o2", role |-> "USER",       isActive |-> TRUE,  email |-> "u7"] @@
    "u8" :> [organizationId |-> "o2", role |-> "ADMIN",      isActive |-> FALSE, email |-> "u8"] )

\* e4, e6 and e7 have no live document; e5 is soft-deleted; u7 has no
\* employee record.
Employees ==
  ( "e1" :> [organizationId |-> "o1", userId |-> "u1", deletedAt |-> NULL] @@
    "e2" :> [organizationId |-> "o1", userId |-> NULL, deletedAt |-> NULL] @@
    "e3" :> [organizationId |-> "o2", userId |-> "u5", deletedAt |-> NULL] @@
    "e4" :> [organizationId |-> "o1", userId |-> NULL, deletedAt |-> NULL] @@
    "e5" :> [organizationId |-> "o2", userId |-> "u6", deletedAt |-> "set"] @@
    "e6" :> [organizationId |-> "o2", userId |-> NULL, deletedAt |-> NULL] @@
    "e7" :> [organizationId |-> "o2", userId |-> NULL, deletedAt |-> NULL] )

Doc(organizationId, employeeId, type, expiresAt, deletedAt) ==
  [organizationId |-> organizationId, employeeId |-> employeeId, type |-> type,
   expiresAt |-> expiresAt, deletedAt |-> deletedAt,
   uploadedById |-> IF type = "CONTRACT" THEN "u3" ELSE "u2"]

\* d9 and d12 are expired from the start; d4, d10 and d11 are soft-deleted.
Documents ==
  ( "d1"  :> Doc("o1", "e1", "CONTRACT", <<7 * DayLen>>, NULL) @@
    "d2"  :> Doc("o1", "e2", "LICENSE",  <<16 * DayLen - 1>>, NULL) @@
    "d3"  :> Doc("o2", NULL, "POLICY",   <<2 * DayLen>>, NULL) @@
    "d4"  :> Doc("o1", "e1", "CONTRACT", <<7 * DayLen>>, "set") @@
    "d5"  :> Doc("o2", "e3", "LICENSE",  <<31 * DayLen>>, NULL) @@
    "d6"  :> Doc("o1", "e1", "POLICY",   <<>>, NULL) @@
    "d7"  :> Doc("o1", "e1", "LICENSE",  <<14 * DayLen>>, NULL) @@
    "d8"  :> Doc("o2", NULL, "POLICY",   <<31 * DayLen + 1>>, NULL) @@
    "d9"  :> Doc("o1", "e2", "CONTRACT", <<0>>, NULL) @@
    "d10" :> Doc("o1", "e1", "LICENSE",  <<0>>, "set") @@
    "d11" :> Doc("o1", "e4", "OTHER",    <<31 * DayLen>>, "set") @@
    "d12" :> Doc("o2", "e5", "CONTRACT", <<0>>, NULL) )

DocIds == DOMAIN Documents
UserIds == DOMAIN Users
EmployeeIds == DOMAIN Employees

\* ------------------------------------------------------------ job config
WarningDays == <<30, 14, 7, 1>>

Triggers == {"cron", "manual"}

\* ------------------------------------------------------------- utilities
Perms(S) ==
  { q \in [1..Cardinality(S) -> S] : \A i, j \in 1..Cardinality(S) : q[i] = q[j] => i = j }

One(x) == SetToBag({x})

\* Number of copies in bag B of the elements satisfying P.
CountIn(B, P(_)) == BagCardinality([x \in {y \in BagToSet(B) : P(y)} |-> B[x]])

\* ---------------------------------------------------------- date helpers
\* Date.setHours(0, 0, 0, 0): the start of the calendar day holding t.
setHours0(t) == t - (t % DayLen)

\* Date.setDate(getDate() + n): the same time of day, n calendar days on.
setDate(t, n) == t + n * DayLen

\* Variant: the query with a closed upper bound (lte in place of lt).
getDocumentsExpiringInClosed(organizationId, daysAhead, t) ==
  LET targetDate == setHours0(setDate(t, daysAhead))
      nextDay    == setDate(targetDate, 1)
  IN  { d \in DocIds :
          /\ Documents[d].organizationId = organizationId
          /\ Documents[d].deletedAt = NULL
          /\ Documents[d].expiresAt # <<>>
          /\ Documents[d].expiresAt[1] >= targetDate
          /\ Documents[d].expiresAt[1] <= nextDay }

\* Variant: the query also returns the documents without an expiry date.
getDocumentsExpiringInOrNull(organizationId, daysAhead, t) ==
  LET targetDate == setHours0(setDate(t, daysAhead))
      nextDay    == setDate(targetDate, 1)
  IN  { d \in DocIds :
          /\ Documents[d].organizationId = organizationId
          /\ Documents[d].deletedAt = NULL
          /\ \/ Documents[d].expiresAt = <<>>
             \/ /\ Documents[d].expiresAt[1] >= targetDate
                /\ Documents[d].expiresAt[1] < nextDay }

\* Variant: the query read as "expires within daysAhead days from today".
getDocumentsExpiringWithin(organizationId, daysAhead, t) ==
  LET targetDate == setHours0(setDate(t, daysAhead))
      nextDay    == setDate(targetDate, 1)
  IN  { d \in DocIds :
          /\ Documents[d].organizationId = organizationId
          /\ Documents[d].deletedAt = NULL
          /\ Documents[d].expiresAt # <<>>
          /\ Documents[d].expiresAt[1] >= setHours0(t)
          /\ Documents[d].expiresAt[1] < nextDay }

\* getDocumentsExpiringIn(organizationId, daysAhead) evaluated at clock t.
getDocumentsExpiringIn(organizationId, daysAhead, t) ==
  LET targetDate == setHours0(setDate(t, daysAhead))
      nextDay    == setDate(targetDate, 1)
  IN  { d \in DocIds :
          /\ Documents[d].organizationId = organizationId
          /\ Documents[d].deletedAt = NULL
          /\ Documents[d].expiresAt # <<>>
          /\ Documents[d].expiresAt[1] >= targetDate
          /\ Documents[d].expiresAt[1] < nextDay }

getUrgencyLevel(daysAhead) ==
  IF daysAhead <= 1 THEN "Today"
  ELSE IF daysAhead <= 7 THEN "This Week"
  ELSE IF daysAhead <= 14 THEN "Soon"
  ELSE "In 30 Days"

\* ---------------------------------------------------- notification service
IsPrivileged(role) == role \in {"HR", "ADMIN", "SUPERADMIN"}

\* createNotification: the error thrown (NULL for none) and the users for
\* whom a notification row is created.  dbOk says whether the database
\* calls inside it succeed.
createNotification(organizationId, creatorRole, userId, dbOk) ==
  IF ~IsPrivileged(creatorRole)
    THEN [error |-> "AuthorizationError", created |-> {}]
  ELSE IF userId # NULL
    THEN IF ~dbOk
           THEN [error |-> "InternalServerError", created |-> {}]
         ELSE IF userId \notin UserIds
           THEN [error |-> "NotFoundError", created |-> {}]
         ELSE IF Users[userId].organizationId # organizationId
           THEN [error |-> "AuthorizationError", created |-> {}]
         ELSE [error |-> NULL, created |-> {userId}]
  ELSE LET orgUsers == { u \in UserIds : /\ Users[u].organizationId = organizationId
                                         /\ Users[u].isActive }
       IN  IF ~dbOk
             THEN [error |-> "InternalServerError", created |-> {}]
           ELSE IF orgUsers = {}
             THEN [error |-> "ValidationError", created |-> {}]
           ELSE [error |-> NULL, created |-> orgUsers]

\* prisma.user.findMany of processExpiringDocument step 2.
adminUsers(organizationId) ==
  { u \in UserIds : /\ Users[u].organizationId = organizationId
                    /\ IsPrivileged(Users[u].role)
                    /\ Users[u].isActive }

\* ------------------------------------------------------- a run's position
curOrg(s) == Organizations[s.orgIdx]
curDays(s) == WarningDays[s.wdIdx]
curDoc(s) == Head(s.docs)
curAdmin(s) == Head(s.admins)
employeeUser(d) ==
  IF Documents[d].employeeId = NULL THEN NULL
  ELSE Employees[Documents[d].employeeId].userId

IdleRun ==
  [pc |-> "idle", orgIdx |-> 0, wdIdx |-> 0, docs |-> <<>>, admins |-> <<>>,
   notifications |-> 0, emails |-> 0, notificationCount |-> 0, emailCount |-> 0,
   totalNotifications |-> 0, totalEmails |-> 0, processedOrganizations |-> 0,
   errors |-> 0, outcome |-> "none", summary |-> FALSE, docStats |-> {},
   startTime |-> 0, after |-> {}]

\* ----------------------------------------- which catch block takes a throw
\* The innermost try statement enclosing each await.
\* Variants: the same sites with the enclosing try statement left out.
CatchOfListOrganizationsNoTry == "uncaught"
CatchOfQueryNoTry == "organizationCatch"
CatchOfEmployeeEmailNoTry == "documentCatch"

CatchOfListOrganizations == "jobCatch"
CatchOfQuery == "thresholdCatch"
CatchOfEmployeeNotification == "employeeCatch"
CatchOfEmployeeEmail == "employeeEmailCatch"
CatchOfAdminUsers == "adminsCatch"
CatchOfAdminNotification == "adminsCatch"
CatchOfAdminEmail == "adminEmailCatch"

\* -------------------------------------------- synchronous continuations
RECURSIVE NextDocument(_)

\* executeJob: the completion summary.
FinishJob(s) == [s EXCEPT !.pc = "done", !.outcome = "resolved", !.summary = TRUE]

\* processOrganization entered for the i-th organization.
EnterOrganization(s, i) ==
  [s EXCEPT !.orgIdx = i, !.wdIdx = 1, !.notificationCount = 0, !.emailCount = 0,
            !.docs = <<>>, !.admins = <<>>, !.pc = "query"]

NextOrganization(s) ==
  IF s.orgIdx < Len(Organizations)
    THEN EnterOrganization(s, s.orgIdx + 1)
    ELSE FinishJob(s)

\* processOrganization returned its counts to executeJob.
ReturnOrganization(s) ==
  NextOrganization([s EXCEPT !.totalNotifications = @ + s.notificationCount,
                             !.totalEmails = @ + s.emailCount,
                             !.processedOrganizations = @ + 1])

NextThreshold(s) ==
  IF s.wdIdx < Len(WarningDays)
    THEN [s EXCEPT !.wdIdx = @ + 1, !.docs = <<>>, !.admins = <<>>, !.pc = "query"]
    ELSE ReturnOrganization(s)

\* processExpiringDocument returned {notifications, emails}.  The stats
\* are also kept in docStats, a history of what each call returned.
ReturnDocument(s) ==
  NextDocument([s EXCEPT
    !.docStats = @ \cup {[documentId |-> curDoc(s), organizationId |-> curOrg(s),
                          warningDays |-> curDays(s),
                          notifications |-> s.notifications, emails |-> s.emails]},
    !.notificationCount = @ + s.notifications,
    !.emailCount = @ + s.emails,
    !.docs = Tail(@), !.admins = <<>>])

\* Variant: manager fan-out at every threshold.
NotifyAdminsAlways(s) == [s EXCEPT !.pc = "adminUsers"]

\* Step 2 of processExpiringDocument: managers only for warningDays <= 7.
NotifyAdmins(s) ==
  IF curDays(s) <= 7 THEN [s EXCEPT !.pc = "adminUsers"] ELSE ReturnDocument(s)

\* processExpiringDocument entered for the head of s.docs.
BeginDocument(s) ==
  LET t == [s EXCEPT !.notifications = 0, !.emails = 0, !.admins = <<>>]
  IN  IF Documents[curDoc(s)].employeeId # NULL
        THEN [t EXCEPT !.pc = "employeeNotification"]
        ELSE NotifyAdmins(t)

NextDocument(s) == IF s.docs # <<>> THEN BeginDocument(s) ELSE NextThreshold(s)

NextAdmin(s) ==
  LET t == [s EXCEPT !.admins = Tail(@)]
  IN  IF t.admins # <<>> THEN [t EXCEPT !.pc = "adminNotification"] ELSE ReturnDocument(t)

\* The run resumes in catch block h.
Handle(s, h) ==
  CASE h = "employeeEmailCatch" -> NotifyAdmins(s)
    [] h = "employeeCatch"      -> NotifyAdmins(s)
    [] h = "adminEmailCatch"    -> NextAdmin(s)
    [] h = "adminsCatch"        -> ReturnDocument(s)
    [] h = "documentCatch"      -> ReturnDocument(s)
    [] h = "documentLoopCatch"  -> NextDocument([s EXCEPT !.docs = Tail(@), !.admins = <<>>])
    [] h = "thresholdCatch"     -> NextThreshold(s)
    [] h = "organizationCatch"  -> NextOrganization([s EXCEPT !.errors = @ + 1])
    [] h = "jobCatch"           -> [s EXCEPT !.pc = "done", !.outcome = "resolved"]
    [] OTHER                    -> [s EXCEPT !.pc = "done", !.outcome = "rejected"]

\* ---------------------------------------------------------------- ghosts
Call(r, site, s, doc, user, ok) ==
  [run |-> r, site |-> site,
   organizationId |-> IF s.orgIdx = 0 THEN NULL ELSE curOrg(s),
   warningDays |-> IF s.wdIdx = 0 THEN 0 ELSE curDays(s),
   documentId |-> doc, userId |-> user, ok |-> ok]

MayFail(ok) == ok \/ failures < MaxFailures
Count(ok) == IF ok THEN failures ELSE failures + 1

\* The last answer given by a read operation of the compliance services.
NoResponse == [op |-> "none"]

\* bcrypt.hash(password, BCRYPT_SALT_ROUNDS): the stored value is not the
\* password.
hash(password) == <<"bcrypt", password>>

\* The calls of resetPassword that may be in flight together, and a call
\* that has not been made yet.
ResetCalls == {"call1", "call2", "call3"}
IdleReset == [pc |-> "idle", token |-> NULL, newPassword |-> <<>>, userId |-> NULL,
              outcome |-> NULL, after |-> {}]

\* No acceptInvite call has been answered yet.
NoAccept == [outcome |-> "none"]

\* ------------------------------------------------------------------ Init
Init ==
  /\ now = DayLen - 1
  /\ enabled \in BOOLEAN
  /\ cronJob = NULL
  /\ run = [r \in Triggers |-> IdleRun]
  /\ calls = EmptyBag
  /\ notifs = EmptyBag
  /\ mail = EmptyBag
  /\ selected = {}
  /\ failures = 0
  /\ response = NoResponse
  /\ users = [u \in UserIds |-> [organizationId |-> Users[u].organizationId,
                                 role |-> Users[u].role, isActive |-> Users[u].isActive,
                                 email |-> Users[u].email,
                                 password |-> hash("initial")]]
  /\ userOfEmployee = [e \in EmployeeIds |-> Employees[e].userId]
  /\ invites = {}
  /\ resetTokens = {}
  /\ reset = [c \in ResetCalls |-> IdleReset]
  /\ accept = NoAccept
  /\ connections = {}
  /\ responses = <<>>
  /\ millis = 0

\* --------------------------------------------------------------- actions
\* The wall clock advances.  A run is short against the resolution of the
\* clock: no tick falls inside one, but ticks fall between runs.
Tick ==
  /\ now < MaxNow
  /\ \A r \in Triggers : run[r].pc \in {"idle", "done"}
  /\ now' = now + 1
  /\ UNCHANGED <<enabled, cronJob, run, calls, notifs, mail, selected, failures, response, authVars, sseVars>>

\* start(): schedules the cron task unless disabled or already scheduled.
start ==
  /\ enabled
  /\ cronJob # "running"
  /\ cronJob' = "running"
  /\ UNCHANGED <<now, enabled, run, calls, notifs, mail, selected, failures, response, authVars, sseVars>>

\* stop(): stops and forgets the cron task; executions in progress go on.
stop ==
  /\ cronJob # NULL
  /\ cronJob' = NULL
  /\ UNCHANGED <<now, enabled, run, calls, notifs, mail, selected, failures, response, authVars, sseVars>>

\* executeJob() is entered: no check of an execution already in progress,
\* and none of an execution finished earlier on the same day.  startTime is
\* Date.now(); after is a history of the executions finished before this one
\* was entered.
executeJob(r) ==
  /\ run[r].pc = "idle"
  /\ run' = [run EXCEPT ![r] =
       [IdleRun EXCEPT !.pc = "organizations", !.startTime = now,
                       !.after = { q \in Triggers : run[q].pc = "done" }]]
  /\ UNCHANGED <<now, enabled, cronJob, calls, notifs, mail, selected, failures, response, authVars, sseVars>>

\* The scheduled callback fires.
cronTick ==
  /\ cronJob = "running"
  /\ executeJob("cron")

\* runOnce(): the manual trigger.
runOnce == executeJob("manual")

\* await prisma.organization.findMany
listOrganizations(r) ==
  /\ run[r].pc = "organizations"
  /\ \E ok \in BOOLEAN :
       /\ MayFail(ok)
       /\ failures' = Count(ok)
       /\ calls' = calls (+) One(Call(r, "organizations", run[r], NULL, NULL, ok))
       /\ run' = [run EXCEPT ![r] =
            IF ok THEN IF Len(Organizations) = 0 THEN FinishJob(@)
                       ELSE EnterOrganization(@, 1)
            ELSE Handle(@, CatchOfListOrganizations)]
  /\ UNCHANGED <<now, enabled, cronJob, notifs, mail, selected, response, authVars, sseVars>>

\* await this.getDocumentsExpiringIn(organizationId, warningDays)
queryDocuments(r) ==
  /\ run[r].pc = "query"
  /\ \E ok \in BOOLEAN :
       /\ MayFail(ok)
       /\ failures' = Count(ok)
       /\ calls' = calls (+) One(Call(r, "query", run[r], NULL, NULL, ok))
       /\ IF ok
            THEN LET found == getDocumentsExpiringIn(curOrg(run[r]), curDays(run[r]), now)
                 IN  /\ selected' = selected \cup
                          {[run |-> r, organizationId |-> curOrg(run[r]),
                            warningDays |-> curDays(run[r]), at |-> now,
                            documents |-> found]}
                     /\ \E order \in Perms(found) :
                          run' = [run EXCEPT ![r] = NextDocument([@ EXCEPT !.docs = order])]
            ELSE /\ selected' = selected
                 /\ run' = [run EXCEPT ![r] = Handle(@, CatchOfQuery)]
  /\ UNCHANGED <<now, enabled, cronJob, notifs, mail, response, authVars, sseVars>>

\* await notificationService.createNotification(... REMINDER ...) for the employee
employeeNotification(r) ==
  /\ run[r].pc = "employeeNotification"
  /\ \E dbOk \in BOOLEAN :
       LET s   == run[r]
           d   == curDoc(s)
           uid == employeeUser(d)
           res == createNotification(curOrg(s), "HR", uid, dbOk)
           ok  == res.error = NULL
       IN  /\ MayFail(dbOk)
           /\ failures' = Count(dbOk)
           /\ calls' = calls (+) One(Call(r, "employeeNotification", s, d, uid, ok))
           /\ notifs' = notifs (+) SetToBag({[run |-> r, organizationId |-> curOrg(s),
                                               userId |-> u, type |-> "REMINDER",
                                               documentId |-> d] : u \in res.created})
           /\ run' = [run EXCEPT ![r] =
                IF ok
                  THEN LET t == [@ EXCEPT !.notifications = @ + 1]
                       IN  IF uid # NULL /\ Users[uid].email # NULL
                             THEN [t EXCEPT !.pc = "employeeEmail"]
                             ELSE NotifyAdmins(t)
                  ELSE Handle(@, CatchOfEmployeeNotification)]
  /\ UNCHANGED <<now, enabled, cronJob, mail, selected, response, authVars, sseVars>>

\* await emailService.sendComplianceReminder(employee's user)
employeeEmail(r) ==
  /\ run[r].pc = "employeeEmail"
  /\ \E ok \in BOOLEAN :
       LET s   == run[r]
           d   == curDoc(s)
           uid == employeeUser(d)
       IN  /\ MayFail(ok)
           /\ failures' = Count(ok)
           /\ calls' = calls (+) One(Call(r, "employeeEmail", s, d, uid, ok))
           /\ mail' = IF ok THEN mail (+) One([run |-> r, to |-> Users[uid].email,
                                               documentId |-> d])
                      ELSE mail
           /\ run' = [run EXCEPT ![r] =
                IF ok THEN NotifyAdmins([@ EXCEPT !.emails = @ + 1])
                ELSE Handle(@, CatchOfEmployeeEmail)]
  /\ UNCHANGED <<now, enabled, cronJob, notifs, selected, response, authVars, sseVars>>

\* await prisma.user.findMany: the active HR/ADMIN/SUPERADMIN users
listAdminUsers(r) ==
  /\ run[r].pc = "adminUsers"
  /\ \E ok \in BOOLEAN :
       LET s == run[r]
       IN  /\ MayFail(ok)
           /\ failures' = Count(ok)
           /\ calls' = calls (+) One(Call(r, "adminUsers", s, curDoc(s), NULL, ok))
           /\ IF ok
                THEN \E order \in Perms(adminUsers(curOrg(s))) :
                       run' = [run EXCEPT ![r] =
                         IF order = <<>> THEN ReturnDocument(@)
                         ELSE [@ EXCEPT !.admins = order, !.pc = "adminNotification"]]
                ELSE run' = [run EXCEPT ![r] = Handle(@, CatchOfAdminUsers)]
  /\ UNCHANGED <<now, enabled, cronJob, notifs, mail, selected, response, authVars, sseVars>>

\* await notificationService.createNotification(... ALERT ...) for one manager
adminNotification(r) ==
  /\ run[r].pc = "adminNotification"
  /\ \E dbOk \in BOOLEAN :
       LET s   == run[r]
           d   == curDoc(s)
           uid == curAdmin(s)
           res == createNotification(curOrg(s), "HR", uid, dbOk)
           ok  == res.error = NULL
       IN  /\ MayFail(dbOk)
           /\ failures' = Count(dbOk)
           /\ calls' = calls (+) One(Call(r, "adminNotification", s, d, uid, ok))
           /\ notifs' = notifs (+) SetToBag({[run |-> r, organizationId |-> curOrg(s),
                                               userId |-> u, type |-> "ALERT",
                                               documentId |-> d] : u \in res.created})
           /\ run' = [run EXCEPT ![r] =
                IF ok THEN [@ EXCEPT !.notifications = @ + 1, !.pc = "adminEmail"]
                ELSE Handle(@, CatchOfAdminNotification)]
  /\ UNCHANGED <<now, enabled, cronJob, mail, selected, response, authVars, sseVars>>

\* await emailService.sendComplianceReminder(manager)
adminEmail(r) ==
  /\ run[r].pc = "adminEmail"
  /\ \E ok \in BOOLEAN :
       LET s   == run[r]
           d   == curDoc(s)
           uid == curAdmin(s)
       IN  /\ MayFail(ok)
           /\ failures' = Count(ok)
           /\ calls' = calls (+) One(Call(r, "adminEmail", s, d, uid, ok))
           /\ mail' = IF ok THEN mail (+) One([run |-> r, to |-> Users[uid].email,
                                               documentId |-> d])
                      ELSE mail
           /\ run' = [run EXCEPT ![r] =
                IF ok THEN NextAdmin([@ EXCEPT !.emails = @ + 1])
                ELSE Handle(@, CatchOfAdminEmail)]
  /\ UNCHANGED <<now, enabled, cronJob, notifs, selected, response, authVars, sseVars>>

Next ==
  \/ Tick
  \/ start
  \/ stop
  \/ cronTick
  \/ runOnce
  \/ \E r \in Triggers : listOrganizations(r)
  \/ \E r \in Triggers : queryDocuments(r)
  \/ \E r \in Triggers : employeeNotification(r)
  \/ \E r \in Triggers : employeeEmail(r)
  \/ \E r \in Triggers : listAdminUsers(r)
  \/ \E r \in Triggers : adminNotification(r)
  \/ \E r \in Triggers : adminEmail(r)

Spec == Init /\ [][Next]_vars

\* ================================================ compliance calculators
\* The calculators read the clock themselves (new Date()); t is that reading.
DefaultWarningDays == 30

\* Math.ceil(a / b) for b > 0.
CeilDiv(a, b) == -((-a) \div b)

\* Variant: the warning period ends one day early (< in place of <=).
getComplianceStatusStrict(expiresAt, warningDays, t) ==
  IF expiresAt = <<>> THEN "GREEN"
  ELSE IF expiresAt[1] < t THEN "RED"
  ELSE IF CeilDiv(expiresAt[1] - t, DayLen) < warningDays THEN "YELLOW"
  ELSE "GREEN"

getComplianceStatus(expiresAt, warningDays, t) ==
  IF expiresAt = <<>> THEN "GREEN"
  ELSE IF expiresAt[1] < t THEN "RED"
  ELSE IF CeilDiv(expiresAt[1] - t, DayLen) <= warningDays THEN "YELLOW"
  ELSE "GREEN"

\* null is <<>>, the number n is <<n>>.
getDaysUntilExpiry(expiresAt, t) ==
  IF expiresAt = <<>> THEN <<>> ELSE <<CeilDiv(expiresAt[1] - t, DayLen)>>

\* x || undefined for a nullable number: null and 0 both give undefined.
OrUndefined(x) == IF x = <<>> \/ x = <<0>> THEN <<>> ELSE x

formatDocumentCompliance(document, t) ==
  [documentId |-> document.id,
   status |-> getComplianceStatus(document.expiresAt, DefaultWarningDays, t),
   expiresAt |-> document.expiresAt,
   daysUntilExpiry |-> OrUndefined(getDaysUntilExpiry(document.expiresAt, t))]

\* The for loop of getEmployeeComplianceStatus with its hasYellow flag.
RECURSIVE StatusLoop(_, _, _)
StatusLoop(documents, hasYellow, t) ==
  IF documents = <<>> THEN (IF hasYellow THEN "YELLOW" ELSE "GREEN")
  ELSE LET status == getComplianceStatus(Head(documents).expiresAt, DefaultWarningDays, t)
       IN  IF status = "RED" THEN "RED"
           ELSE StatusLoop(Tail(documents), hasYellow \/ status = "YELLOW", t)

\* Variant: the status of the first document that is not GREEN.
getEmployeeComplianceStatusFirst(documents, t) ==
  LET notGreen == SelectSeq(documents, LAMBDA doc :
                    getComplianceStatus(doc.expiresAt, DefaultWarningDays, t) # "GREEN")
  IN  IF notGreen = <<>> THEN "GREEN"
      ELSE getComplianceStatus(Head(notGreen).expiresAt, DefaultWarningDays, t)

getEmployeeComplianceStatus(documents, t) ==
  IF Len(documents) = 0 THEN "GREEN" ELSE StatusLoop(documents, FALSE, t)

\* The forEach of calculateComplianceSummary.
RECURSIVE SummaryLoop(_, _)
SummaryLoop(employees, summary) ==
  IF employees = <<>> THEN summary
  ELSE LET st == Head(employees).status
       IN  SummaryLoop(Tail(employees),
             CASE st = "GREEN"  -> [summary EXCEPT !.green = @ + 1]
               [] st = "YELLOW" -> [summary EXCEPT !.yellow = @ + 1]
               [] st = "RED"    -> [summary EXCEPT !.red = @ + 1]
               [] OTHER         -> summary)

calculateComplianceSummary(employees) ==
  SummaryLoop(employees, [green |-> 0, yellow |-> 0, red |-> 0, total |-> Len(employees)])

\* ================================================== aggregation service
\* complianceService.ts.  A thrown error is [error |-> its class]; dbOk says
\* whether the database calls of the operation succeed.
Err(class) == [error |-> class]

\* A failed database call rejects with an error of the database client.
DatabaseFailure ==
  [error |-> "PrismaClientKnownRequestError", message |-> "Can't reach database server"]

InternalServerError(message) == [error |-> "InternalServerError", message |-> message]

\* Variant: the catch block rethrows whatever it caught.
CaughtAll(attempt, rethrown, message) == attempt

\* The catch block of every operation: the listed classes are rethrown,
\* anything else becomes a new InternalServerError with a fixed message.
Caught(attempt, rethrown, message) ==
  CHOOSE outcome \in { IF ended.error = NULL \/ ended.error \in rethrown THEN ended
                       ELSE InternalServerError(message) : ended \in {attempt} } : TRUE

\* orderBy lastName, firstName: the employees in the order of their names.
EmployeeOrder == <<"e1", "e2", "e3", "e4", "e5", "e6", "e7">>

\* orderBy type / localeCompare on the type name.
DocumentTypes == <<"CERTIFICATION", "CONTRACT", "LICENSE", "OTHER", "POLICY">>

\* expiresAt asc, null last.
NotAfter(a, b) ==
  \/ Documents[b].expiresAt = <<>>
  \/ /\ Documents[a].expiresAt # <<>>
     /\ Documents[a].expiresAt[1] <= Documents[b].expiresAt[1]

\* The rows of the documents S as the database returns them, ordered by
\* expiresAt (the order among equal expiresAt is by columns left out here).
SortedRows(S) ==
  LET q == CHOOSE o \in Perms(S) :
             \A i, j \in 1..Cardinality(S) : i < j => NotAfter(o[i], o[j])
  IN  [i \in 1..Cardinality(S) |-> [id |-> q[i], expiresAt |-> Documents[q[i]].expiresAt]]

\* Variant: the employees read without their deletedAt filter.
liveEmployeesAll(organizationId) ==
  SelectSeq(EmployeeOrder, LAMBDA e : Employees[e].organizationId = organizationId)

liveEmployees(organizationId) ==
  SelectSeq(EmployeeOrder, LAMBDA e : /\ Employees[e].organizationId = organizationId
                                      /\ Employees[e].deletedAt = NULL)

\* Variant: the documents relation read without its deletedAt filter.
employeeDocumentsAll(employeeId) ==
  { d \in DocIds : Documents[d].employeeId = employeeId }

\* documents: { where: { deletedAt: null } } of an employee row.
employeeDocuments(employeeId) ==
  { d \in DocIds : /\ Documents[d].employeeId = employeeId
                   /\ Documents[d].deletedAt = NULL }

\* Variant: the employee of a user is looked up among the live employees.
employeeOfUserLive(userId) ==
  { e \in EmployeeIds : Employees[e].userId = userId /\ Employees[e].deletedAt = NULL }

\* prisma.employee.findUnique({ where: { userId } }): no other filter.
employeeOfUser(userId) == { e \in EmployeeIds : Employees[e].userId = userId }

\* findUnique({ where: { userId, organizationId, deletedAt: null } })
liveEmployeeOfUser(userId, organizationId) ==
  { e \in employeeOfUser(userId) : /\ Employees[e].organizationId = organizationId
                                   /\ Employees[e].deletedAt = NULL }

MapSeq(q, F(_)) == [i \in 1..Len(q) |-> F(q[i])]

getEmployeeCompliance(employeeId, organizationId, requestingUserId, requestingUserRole, dbOk, t) ==
  LET attempt ==
  IF ~IsPrivileged(requestingUserRole) /\ ~dbOk
    THEN DatabaseFailure
  ELSE IF ~IsPrivileged(requestingUserRole) /\ employeeId \notin employeeOfUser(requestingUserId)
    THEN Err("AuthorizationError")
  ELSE IF ~dbOk
    THEN DatabaseFailure
  ELSE IF ~( /\ employeeId \in EmployeeIds
             /\ Employees[employeeId].organizationId = organizationId
             /\ Employees[employeeId].deletedAt = NULL )
    THEN Err("NotFoundError")
  ELSE LET rows == SortedRows(employeeDocuments(employeeId))
       IN  [error |-> NULL, employeeId |-> employeeId,
            status |-> getEmployeeComplianceStatus(rows, t),
            documents |-> MapSeq(rows, LAMBDA d : formatDocumentCompliance(d, t))]
  IN  Caught(attempt, {"NotFoundError", "AuthorizationError"},
             "Failed to retrieve employee compliance status")

getOrganizationCompliance(organizationId, requestingUserRole, dbOk, t) ==
  LET attempt ==
  IF ~IsPrivileged(requestingUserRole) THEN Err("AuthorizationError")
  ELSE IF ~dbOk THEN DatabaseFailure
  ELSE LET employees == MapSeq(liveEmployees(organizationId), LAMBDA e :
                          [employeeId |-> e,
                           status |-> getEmployeeComplianceStatus(
                                        SortedRows(employeeDocuments(e)), t)])
       IN  [error |-> NULL, organizationId |-> organizationId,
            summary |-> calculateComplianceSummary(employees),
            employees |-> employees]
  IN  Caught(attempt, {"AuthorizationError"},
             "Failed to retrieve organization compliance status")

\* The status counts of a list of formatted documents or employees.
countByStatus(list) ==
  [green  |-> Len(SelectSeq(list, LAMBDA x : x.status = "GREEN")),
   yellow |-> Len(SelectSeq(list, LAMBDA x : x.status = "YELLOW")),
   red    |-> Len(SelectSeq(list, LAMBDA x : x.status = "RED")),
   total  |-> Len(list)]

getComplianceByType(organizationId, requestingUserRole, dbOk, t) ==
  LET attempt ==
  IF ~IsPrivileged(requestingUserRole) THEN Err("AuthorizationError")
  ELSE IF ~dbOk THEN DatabaseFailure
  ELSE LET documents == { d \in DocIds : /\ Documents[d].organizationId = organizationId
                                         /\ Documents[d].deletedAt = NULL
                                         /\ Documents[d].employeeId # NULL }
           group(type) == { d \in documents : Documents[d].type = type }
           types == SelectSeq(DocumentTypes, LAMBDA type : group(type) # {})
       IN  [error |-> NULL,
            types |-> MapSeq(types, LAMBDA type :
              LET documentCompliance ==
                    MapSeq(SortedRows(group(type)), LAMBDA d : formatDocumentCompliance(d, t))
              IN  [documentType |-> type, summary |-> countByStatus(documentCompliance),
                   documents |-> documentCompliance])]
  IN  Caught(attempt, {"AuthorizationError"},
             "Failed to retrieve compliance by document type")

\* The expired live documents of an employee, with daysExpired.
expiredDocuments(employeeId, t) ==
  MapSeq(SortedRows({ d \in employeeDocuments(employeeId) :
                        /\ Documents[d].expiresAt # <<>>
                        /\ Documents[d].expiresAt[1] < t }),
         LAMBDA d : [id |-> d.id, expiresAt |-> d.expiresAt,
                     daysExpired |-> CeilDiv(t - d.expiresAt[1], DayLen)])

getCriticalComplianceIssues(organizationId, requestingUserRole, requestingUserId, dbOk, t) ==
  LET attempt ==
  IF IsPrivileged(requestingUserRole)
    THEN IF ~dbOk THEN DatabaseFailure
         ELSE [error |-> NULL,
               issues |-> MapSeq(SelectSeq(liveEmployees(organizationId),
                                           LAMBDA e : expiredDocuments(e, t) # <<>>),
                                 LAMBDA e : [employeeId |-> e,
                                             expiredDocuments |-> expiredDocuments(e, t)])]
  ELSE IF requestingUserId = NULL THEN Err("AuthorizationError")
  ELSE IF ~dbOk THEN DatabaseFailure
  ELSE LET own == liveEmployeeOfUser(requestingUserId, organizationId)
       IN  IF own = {} THEN Err("AuthorizationError")
           ELSE LET e == CHOOSE x \in own : TRUE
                IN  [error |-> NULL,
                     issues |-> IF expiredDocuments(e, t) = <<>> THEN <<>>
                                ELSE <<[employeeId |-> e,
                                        expiredDocuments |-> expiredDocuments(e, t)]>>]
  IN  Caught(attempt, {"AuthorizationError"},
             "Failed to retrieve critical compliance issues")

\* Variant: the percentage rounded up.
RoundPercentUp(a, b) == CeilDiv(100 * a, b)

\* Math.round(100 * a / b) for b > 0.
RoundPercent(a, b) == (200 * a + b) \div (2 * b)

\* Variant: the period of "expiring soon" runs to the end of the 30th day.
thirtyDaysFromNowEndOfDay(t) == setHours0(setDate(t, 31))

\* thirtyDaysFromNow.setDate(now.getDate() + 30)
thirtyDaysFromNow(t) == setDate(t, 30)

getComplianceMetrics(organizationId, requestingUserRole, requestingUserId, dbOk, t) ==
  LET attempt ==
  LET expiringSoon(S) == { d \in S : /\ Documents[d].expiresAt # <<>>
                                     /\ Documents[d].expiresAt[1] >= t
                                     /\ Documents[d].expiresAt[1] <= thirtyDaysFromNow(t) }
      expired(S) == { d \in S : /\ Documents[d].expiresAt # <<>>
                                /\ Documents[d].expiresAt[1] < t }
  IN  IF IsPrivileged(requestingUserRole)
        THEN LET documents == { d \in DocIds : /\ Documents[d].organizationId = organizationId
                                               /\ Documents[d].deletedAt = NULL }
             IN  \* orgCompliance is the one value of the awaited call.
                 CHOOSE metrics \in
                   { IF orgCompliance.error # NULL THEN orgCompliance
                     ELSE [error |-> NULL,
                           totalEmployees |-> orgCompliance.summary.total,
                           totalDocuments |-> Cardinality(documents),
                           complianceSummary |-> [green  |-> orgCompliance.summary.green,
                                                  yellow |-> orgCompliance.summary.yellow,
                                                  red    |-> orgCompliance.summary.red],
                           documentsExpiringSoon |-> Cardinality(expiringSoon(documents)),
                           expiredDocuments |-> Cardinality(expired(documents)),
                           complianceRate |->
                             IF orgCompliance.summary.total > 0
                               THEN RoundPercent(orgCompliance.summary.green,
                                                 orgCompliance.summary.total)
                               ELSE 100] :
                     orgCompliance \in {getOrganizationCompliance(
                                          organizationId, requestingUserRole, dbOk, t)} } : TRUE
      ELSE IF requestingUserId = NULL THEN Err("AuthorizationError")
      ELSE IF ~dbOk THEN DatabaseFailure
      ELSE LET own == liveEmployeeOfUser(requestingUserId, organizationId)
           IN  IF own = {} THEN Err("AuthorizationError")
               ELSE LET e == CHOOSE x \in own : TRUE
                        documents == employeeDocuments(e)
                        employeeStatus == getEmployeeComplianceStatus(SortedRows(documents), t)
                    IN  [error |-> NULL,
                         totalEmployees |-> Len(liveEmployees(organizationId)),
                         totalDocuments |-> Cardinality(documents),
                         complianceSummary |->
                           [green  |-> IF employeeStatus = "GREEN" THEN 1 ELSE 0,
                            yellow |-> IF employeeStatus = "YELLOW" THEN 1 ELSE 0,
                            red    |-> IF employeeStatus = "RED" THEN 1 ELSE 0],
                         documentsExpiringSoon |-> Cardinality(expiringSoon(documents)),
                         expiredDocuments |-> Cardinality(expired(documents)),
                         complianceRate |-> IF employeeStatus = "GREEN" THEN 100 ELSE 0]
  IN  Caught(attempt, {"AuthorizationError"},
             "Failed to retrieve compliance metrics")

\* ================================================== dashboard controller
statusOrder(status) ==
  CASE status = "RED" -> 3 [] status = "YELLOW" -> 2 [] OTHER -> 1

\* a.name.toLowerCase(): the position of the employee in the order of names.
nameOf(employeeId) == CHOOSE i \in 1..Len(EmployeeOrder) : EmployeeOrder[i] = employeeId

\* Array.sort with the comparator of the controller, which never answers 0:
\* every arrangement that is ordered by the key may come out.
sorted(list, sortBy, sortOrder) ==
  LET key(x) == IF sortBy = "status" THEN statusOrder(x.status) ELSE nameOf(x.employeeId)
      n == Len(list)
  IN  IF sortBy = NULL THEN {list}
      ELSE { q \in { [i \in 1..n |-> list[o[i]]] : o \in Perms(1..n) } :
               \A i, j \in 1..n : i < j =>
                 IF sortOrder = "desc" THEN key(q[i]) >= key(q[j])
                 ELSE key(q[i]) <= key(q[j]) }

\* Variant: the summary of the unfiltered list is sent whatever the filter.
summaryOfResponseUnfiltered(query, filteredSummary, summary) == summary

\* summary: query?.status ? filteredSummary : complianceData.summary
summaryOfResponse(query, filteredSummary, summary) ==
  IF query.status # NULL THEN filteredSummary ELSE summary

\* getOrganizationComplianceController: the bodies it may send for the
\* authenticated user and the validated query.
getOrganizationComplianceController(user, query, dbOk, t) ==
  LET orgId == Users[user].organizationId
      role  == Users[user].role
      respond(complianceData, metrics) ==
        IF complianceData.error # NULL
          THEN {[success |-> FALSE, code |-> complianceData.error]}
        ELSE IF query.includeMetrics /\ metrics.error # NULL
          THEN {[success |-> FALSE, code |-> metrics.error]}
        ELSE { [success |-> TRUE, organizationId |-> complianceData.organizationId,
                summary |-> summaryOfResponse(query, countByStatus(filteredEmployees),
                                              complianceData.summary),
                employees |-> filteredEmployees,
                metrics |-> IF query.includeMetrics THEN <<metrics>> ELSE <<>>] :
               filteredEmployees \in
                 sorted(IF query.status # NULL
                          THEN SelectSeq(complianceData.employees,
                                         LAMBDA e : e.status = query.status)
                          ELSE complianceData.employees,
                        query.sortBy, query.sortOrder) }
  IN  \* complianceData and metrics are the values of the two awaited calls.
      UNION { respond(complianceData, metrics) :
                <<complianceData, metrics>> \in
                  {getOrganizationCompliance(orgId, role, dbOk, t)}
                    \X {getComplianceMetrics(orgId, role, user, dbOk, t)} }

ComplianceQueries ==
  [status : {NULL, "GREEN", "YELLOW", "RED"}, sortBy : {NULL, "name", "status"},
   sortOrder : {"asc", "desc"}, includeMetrics : BOOLEAN]

\* ===================================================== document listing
\* orderBy createdAt desc: the documents, newest first.
CreatedOrder == <<"d12", "d11", "d10", "d9", "d8", "d7", "d6", "d5", "d4", "d3", "d2", "d1">>

\* where.employeeId after the role-based filtering and the filters: the
\* filter, when given, is assigned over the scope.
whereEmployeeId(scope, filter) == IF filter # NULL THEN filter ELSE scope

\* documentService.listDocuments.  Its first query is outside the try
\* statement: a failure there is thrown as it is.
listDocuments(organizationId, userId, userRole, filters, dbOk) ==
  LET skip == (filters.page - 1) * filters.limit
      userEmployee == employeeOfUser(userId)
      scope == IF IsPrivileged(userRole) THEN NULL ELSE CHOOSE e \in userEmployee : TRUE
      employeeId == whereEmployeeId(scope, filters.employeeId)
      matches(d) ==
        /\ Documents[d].organizationId = organizationId
        /\ Documents[d].deletedAt = NULL
        /\ employeeId # NULL => Documents[d].employeeId = employeeId
        /\ filters.type # NULL => Documents[d].type = filters.type
        /\ filters.uploadedById # NULL => Documents[d].uploadedById = filters.uploadedById
        /\ filters.expiresAfter # <<>> =>
             /\ Documents[d].expiresAt # <<>>
             /\ Documents[d].expiresAt[1] >= filters.expiresAfter[1]
        /\ filters.expiresBefore # <<>> =>
             /\ Documents[d].expiresAt # <<>>
             /\ Documents[d].expiresAt[1] <= filters.expiresBefore[1]
      found == SelectSeq(CreatedOrder, matches)
      total == Len(found)
      last  == IF skip + filters.limit < total THEN skip + filters.limit ELSE total
  IN  IF ~IsPrivileged(userRole) /\ ~dbOk THEN Err("Error")
      ELSE IF ~IsPrivileged(userRole) /\ userEmployee = {}
        THEN [error |-> NULL, documents |-> <<>>, total |-> 0, totalPages |-> 0]
      ELSE IF ~dbOk THEN Err("InternalServerError")
      ELSE [error |-> NULL, documents |-> SubSeq(found, skip + 1, last),
            total |-> total, totalPages |-> CeilDiv(total, filters.limit)]

DocumentFilters ==
  [page : {1, 2}, limit : {2, 20}, type : {NULL, "CONTRACT"},
   employeeId : {NULL} \cup EmployeeIds, uploadedById : {NULL, "u2"},
   expiresAfter : {<<>>, <<DayLen>>}, expiresBefore : {<<>>, <<14 * DayLen>>}]

\* ===================================================== dashboard routes
\* authenticateToken, then requireRole(...roles) where the route has one:
\* the message of the rejection, or NULL when the controller is reached.
\* A request without a valid session token has user = NULL.
requireHROrAdmin == {"HR", "ADMIN", "SUPERADMIN"}
NoRoleCheck == {}

authorize(user, roles) ==
  IF user = NULL THEN "Authentication required"
  ELSE IF roles # NoRoleCheck /\ Users[user].role \notin roles THEN "Insufficient permissions"
  ELSE NULL

Reject(code) == [success |-> FALSE, code |-> code]

getComplianceGrade(complianceRate) ==
  IF complianceRate >= 95 THEN "A+"
  ELSE IF complianceRate >= 90 THEN "A"
  ELSE IF complianceRate >= 85 THEN "B+"
  ELSE IF complianceRate >= 80 THEN "B"
  ELSE IF complianceRate >= 75 THEN "C+"
  ELSE IF complianceRate >= 70 THEN "C"
  ELSE IF complianceRate >= 65 THEN "D+"
  ELSE IF complianceRate >= 60 THEN "D"
  ELSE "F"

\* metrics is the one value that the awaited call has returned.
getComplianceMetricsController(user, query, dbOk, t) ==
  CHOOSE body \in
    { IF metrics.error # NULL THEN Reject(metrics.error)
      ELSE [success |-> TRUE, metrics |-> metrics,
            period |-> IF query.period = 0 THEN 30 ELSE query.period,
            generatedAt |-> t,
            complianceGrade |-> getComplianceGrade(metrics.complianceRate)] :
      metrics \in {getComplianceMetrics(Users[user].organizationId, Users[user].role,
                                        user, dbOk, t)} } : TRUE

getCriticalComplianceIssuesController(user, query, dbOk, t) ==
  LET criticalIssues == getCriticalComplianceIssues(Users[user].organizationId,
                                                    Users[user].role, user, dbOk, t)
      keep(doc) ==
        /\ query.maxDaysExpired # 0 => doc.daysExpired <= query.maxDaysExpired
        /\ query.documentType # NULL => Documents[doc.id].type = query.documentType
      filtered(issues) ==
        IF query.maxDaysExpired = 0 /\ query.documentType = NULL THEN issues
        ELSE SelectSeq(MapSeq(issues, LAMBDA x :
                         [x EXCEPT !.expiredDocuments = SelectSeq(@, keep)]),
                       LAMBDA x : x.expiredDocuments # <<>>)
  IN  IF criticalIssues.error # NULL THEN Reject(criticalIssues.error)
      ELSE LET employees == filtered(criticalIssues.issues)
           IN  [success |-> TRUE, employees |-> employees,
                totalEmployees |-> Len(employees),
                totalExpiredDocuments |->
                  Cardinality({ <<i, j>> \in (1..Len(employees)) \X (1..Cardinality(DocIds)) :
                                  j <= Len(employees[i].expiredDocuments) })]

getComplianceByTypeController(user, query, dbOk, t) ==
  LET complianceData == getComplianceByType(Users[user].organizationId, Users[user].role,
                                            dbOk, t)
  IN  IF complianceData.error # NULL THEN Reject(complianceData.error)
      ELSE LET filteredData ==
                 IF query.minDocuments > 1
                   THEN SelectSeq(complianceData.types,
                                  LAMBDA g : g.summary.total >= query.minDocuments)
                   ELSE complianceData.types
               documentTypes ==
                 IF query.includeDetails THEN filteredData
                 ELSE MapSeq(filteredData, LAMBDA g : [g EXCEPT !.documents = <<>>])
           IN  [success |-> TRUE, documentTypes |-> documentTypes,
                totalTypes |-> Len(documentTypes)]

\* ====================================================== read operations
\* The compliance services only read the stored world: each operation is
\* one action that leaves its answer, with the request, in response, where
\* it stays until it is sent.  One request is followed at a time.
jobVars == <<enabled, cronJob, run, calls, notifs, mail, selected, failures>>

SeqsUpTo(S, n) == UNION { [1..k -> S] : k \in 0..n }

\* Expiry dates around the clock reading t: the boundaries of the statuses.
ExpiryInputs(t) ==
  {<<>>} \cup { <<t + k>> : k \in {-DayLen - 1, -DayLen, -1, 0, 1, DayLen, 30 * DayLen - 1,
                                   30 * DayLen, 30 * DayLen + 1, 31 * DayLen} }

\* One expiry date of each kind: none, expired, expiring soon, far ahead.
ExpirySamples(t) == {<<>>, <<t - 1>>, <<t + DayLen>>, <<t + 31 * DayLen>>}

callGetComplianceStatus ==
  /\ response = NoResponse
  /\ \E expiresAt \in ExpiryInputs(now) :
       response' = [op |-> "getComplianceStatus", expiresAt |-> expiresAt, at |-> now,
                    status |-> getComplianceStatus(expiresAt, DefaultWarningDays, now)]
  /\ UNCHANGED <<now, jobVars, authVars, sseVars>>

callFormatDocumentCompliance ==
  /\ response = NoResponse
  /\ \E expiresAt \in ExpiryInputs(now) :
       response' = [op |-> "formatDocumentCompliance", expiresAt |-> expiresAt, at |-> now,
                    days |-> getDaysUntilExpiry(expiresAt, now),
                    formatted |-> formatDocumentCompliance(
                                    [id |-> "d0", expiresAt |-> expiresAt], now)]
  /\ UNCHANGED <<now, jobVars, authVars, sseVars>>

callGetEmployeeComplianceStatus ==
  /\ response = NoResponse
  /\ \E documents \in SeqsUpTo([expiresAt : ExpirySamples(now)], MaxList) :
       response' = [op |-> "getEmployeeComplianceStatus", documents |-> documents,
                    at |-> now, status |-> getEmployeeComplianceStatus(documents, now)]
  /\ UNCHANGED <<now, jobVars, authVars, sseVars>>

callCalculateComplianceSummary ==
  /\ response = NoResponse
  /\ \E employees \in SeqsUpTo([status : {"GREEN", "YELLOW", "RED"}], MaxList) :
       response' = [op |-> "calculateComplianceSummary", employees |-> employees,
                    summary |-> calculateComplianceSummary(employees)]
  /\ UNCHANGED <<now, jobVars, authVars, sseVars>>

\* GET /dashboard/compliance/:employeeId
employeeCompliance ==
  /\ response = NoResponse
  /\ \E user \in UserIds, employeeId \in EmployeeIds \cup {"e0"}, dbOk \in BOOLEAN :
       response' = [op |-> "getEmployeeCompliance", user |-> user,
                    employeeId |-> employeeId, dbOk |-> dbOk, at |-> now,
                    result |-> getEmployeeCompliance(employeeId, Users[user].organizationId,
                                 user, Users[user].role, dbOk, now)]
  /\ UNCHANGED <<now, jobVars, authVars, sseVars>>

organizationCompliance ==
  /\ response = NoResponse
  /\ \E user \in UserIds, dbOk \in BOOLEAN :
       response' = [op |-> "getOrganizationCompliance", user |-> user, dbOk |-> dbOk,
                    at |-> now,
                    result |-> getOrganizationCompliance(Users[user].organizationId,
                                 Users[user].role, dbOk, now)]
  /\ UNCHANGED <<now, jobVars, authVars, sseVars>>

\* GET /dashboard/compliance: requireHROrAdmin, then the controller.
dashboardCompliance ==
  /\ response = NoResponse
  /\ \E user \in UserIds \cup {NULL}, query \in ComplianceQueries, dbOk \in BOOLEAN :
       \E body \in IF authorize(user, requireHROrAdmin) = NULL
                     THEN getOrganizationComplianceController(user, query, dbOk, now)
                     ELSE {Reject(authorize(user, requireHROrAdmin))} :
         response' = [op |-> "GET /dashboard/compliance", user |-> user, query |-> query,
                      dbOk |-> dbOk, at |-> now, body |-> body]
  /\ UNCHANGED <<now, jobVars, authVars, sseVars>>

complianceByType ==
  /\ response = NoResponse
  /\ \E user \in UserIds, dbOk \in BOOLEAN :
       response' = [op |-> "getComplianceByType", user |-> user, dbOk |-> dbOk, at |-> now,
                    result |-> getComplianceByType(Users[user].organizationId,
                                 Users[user].role, dbOk, now)]
  /\ UNCHANGED <<now, jobVars, authVars, sseVars>>

criticalComplianceIssues ==
  /\ response = NoResponse
  /\ \E user \in UserIds, dbOk \in BOOLEAN :
       response' = [op |-> "getCriticalComplianceIssues", user |-> user, dbOk |-> dbOk,
                    at |-> now,
                    result |-> getCriticalComplianceIssues(Users[user].organizationId,
                                 Users[user].role, user, dbOk, now)]
  /\ UNCHANGED <<now, jobVars, authVars, sseVars>>

\* The organization is the caller's own or "o0", one without any row.
complianceMetrics ==
  /\ response = NoResponse
  /\ \E user \in UserIds, dbOk \in BOOLEAN :
       \E organizationId \in {Users[user].organizationId, "o0"} :
         response' = [op |-> "getComplianceMetrics", user |-> user, dbOk |-> dbOk,
                      organizationId |-> organizationId, at |-> now,
                      result |-> getComplianceMetrics(organizationId, Users[user].role,
                                   user, dbOk, now)]
  /\ UNCHANGED <<now, jobVars, authVars, sseVars>>

\* GET /documents: listDocumentsController
listDocumentsController ==
  /\ response = NoResponse
  /\ \E user \in UserIds, filters \in DocumentFilters, dbOk \in BOOLEAN :
       response' = [op |-> "GET /documents", user |-> user, filters |-> filters,
                    dbOk |-> dbOk,
                    result |-> listDocuments(Users[user].organizationId, user,
                                 Users[user].role, filters, dbOk)]
  /\ UNCHANGED <<now, jobVars, authVars, sseVars>>

\* The query of the expiry scan, as a read of the same stored world.
expiringDocuments ==
  /\ response = NoResponse
  /\ \E i \in 1..Len(Organizations), j \in 1..Len(WarningDays) :
       response' = [op |-> "getDocumentsExpiringIn", organizationId |-> Organizations[i],
                    daysAhead |-> WarningDays[j], at |-> now,
                    documents |->
                      getDocumentsExpiringIn(Organizations[i], WarningDays[j], now)]
  /\ UNCHANGED <<now, jobVars, authVars, sseVars>>

\* GET /dashboard/compliance/metrics: requireHROrAdmin, then the controller.
dashboardMetrics ==
  /\ response = NoResponse
  /\ \E user \in UserIds \cup {NULL}, period \in {0, 7}, dbOk \in BOOLEAN :
       LET rejected == authorize(user, requireHROrAdmin)
       IN  response' = [op |-> "GET /dashboard/compliance/metrics", user |-> user,
                        dbOk |-> dbOk, at |-> now,
                        body |-> IF rejected # NULL THEN Reject(rejected)
                                 ELSE getComplianceMetricsController(
                                        user, [period |-> period], dbOk, now)]
  /\ UNCHANGED <<now, jobVars, authVars, sseVars>>

\* GET /dashboard/compliance/critical: requireHROrAdmin, then the controller.
dashboardCritical ==
  /\ response = NoResponse
  /\ \E user \in UserIds \cup {NULL}, maxDaysExpired \in {0, 1},
        documentType \in {NULL, "CONTRACT"}, dbOk \in BOOLEAN :
       LET rejected == authorize(user, requireHROrAdmin)
       IN  response' = [op |-> "GET /dashboard/compliance/critical", user |-> user,
                        dbOk |-> dbOk, at |-> now,
                        body |-> IF rejected # NULL THEN Reject(rejected)
                                 ELSE getCriticalComplianceIssuesController(user,
                                        [maxDaysExpired |-> maxDaysExpired,
                                         documentType |-> documentType], dbOk, now)]
  /\ UNCHANGED <<now, jobVars, authVars, sseVars>>

\* GET /dashboard/compliance/types: requireHROrAdmin, then the controller.
dashboardTypes ==
  /\ response = NoResponse
  /\ \E user \in UserIds \cup {NULL}, minDocuments \in {0, 2},
        includeDetails \in BOOLEAN, dbOk \in BOOLEAN :
       LET rejected == authorize(user, requireHROrAdmin)
       IN  response' = [op |-> "GET /dashboard/compliance/types", user |-> user,
                        dbOk |-> dbOk, at |-> now,
                        body |-> IF rejected # NULL THEN Reject(rejected)
                                 ELSE getComplianceByTypeController(user,
                                        [minDocuments |-> minDocuments,
                                         includeDetails |-> includeDetails], dbOk, now)]
  /\ UNCHANGED <<now, jobVars, authVars, sseVars>>

\* res.json(...): the answer is sent; the next request may be made.
send ==
  /\ response # NoResponse
  /\ response' = NoResponse
  /\ UNCHANGED <<now, jobVars, authVars, sseVars>>

ComplianceNext ==
  \/ Tick
  \/ callGetComplianceStatus
  \/ callFormatDocumentCompliance
  \/ callGetEmployeeComplianceStatus
  \/ callCalculateComplianceSummary
  \/ employeeCompliance
  \/ organizationCompliance
  \/ dashboardCompliance
  \/ complianceByType
  \/ criticalComplianceIssues
  \/ complianceMetrics
  \/ listDocumentsController
  \/ expiringDocuments
  \/ dashboardMetrics
  \/ dashboardCritical
  \/ dashboardTypes
  \/ send

ComplianceSpec == Init /\ [][ComplianceNext]_vars

\* ============================================================== accounts
\* src/unnamed/part_002 (the auth service) and employee.service.ts.  The
\* tokens that crypto.randomBytes yields, in the order of their issue, and
\* the ids the database gives to new users.
ResetTokenPool == <<"r1", "r2">>
InviteTokenPool == <<"i1", "i2">>
NewUserIds == <<"u9", "u10">>

\* The password each call of resetPassword presents.
NewPasswordOf == [c \in ResetCalls |-> <<"new password of", c>>]

UserByEmail(email) == { u \in DOMAIN users : users[u].email = email }

\* requestPasswordReset(email): for an active user, one transaction marks
\* the user's unused, unexpired tokens as used and creates a new token.
\* In every other case nothing is written and the answer is the same.
requestPasswordReset ==
  /\ Cardinality(resetTokens) < Len(ResetTokenPool)
  /\ \E email \in {"u1", "u4", "nobody"} :
       LET user == UserByEmail(email)
           resetToken == ResetTokenPool[Cardinality(resetTokens) + 1]
       IN  IF user = {} \/ \A u \in user : ~users[u].isActive
             THEN UNCHANGED resetTokens
             ELSE LET u == CHOOSE x \in user : TRUE
                  IN  resetTokens' =
                        { IF r.userId = u /\ ~r.used /\ ~r.expired
                            THEN [r EXCEPT !.used = TRUE] ELSE r : r \in resetTokens }
                        \cup {[token |-> resetToken, userId |-> u, used |-> FALSE,
                               expired |-> FALSE]}
  /\ UNCHANGED <<now, jobVars, response, users, userOfEmployee, invites, reset, accept,
                 sseVars>>

\* PASSWORD_RESET_EXPIRY has passed since the token was created:
\* expiresAt < new Date() from now on.
expire ==
  /\ \E r \in resetTokens :
       /\ ~r.expired
       /\ resetTokens' = (resetTokens \ {r}) \cup {[r EXCEPT !.expired = TRUE]}
  /\ UNCHANGED <<now, jobVars, response, users, userOfEmployee, invites, reset, accept,
                 sseVars>>

\* resetPassword(token, newPassword) up to its first await and the checks
\* that follow it: findUnique by token, then the four rejections.  after is
\* a history of the calls that had succeeded with the token by then.
resetFind(c) ==
  /\ reset[c].pc = "idle"
  /\ \E token \in Elements(ResetTokenPool) \cup {"r0"} :
       LET resetTokenRecord == { r \in resetTokens : r.token = token }
           begun == [IdleReset EXCEPT !.token = token, !.newPassword = NewPasswordOf[c],
                       !.after = { q \in ResetCalls : /\ reset[q].outcome = "success"
                                                      /\ reset[q].token = token }]
           rejected == [begun EXCEPT !.pc = "done", !.outcome = "ValidationError"]
       IN  reset' = [reset EXCEPT ![c] =
             IF resetTokenRecord = {} THEN rejected
             ELSE LET r == CHOOSE x \in resetTokenRecord : TRUE
                  IN  IF r.used \/ r.expired \/ ~users[r.userId].isActive THEN rejected
                      ELSE [begun EXCEPT !.pc = "hash", !.userId = r.userId]]
  /\ UNCHANGED <<now, jobVars, response, users, userOfEmployee, invites, resetTokens,
                 accept, sseVars>>

\* await bcrypt.hash(newPassword, BCRYPT_SALT_ROUNDS)
resetHash(c) ==
  /\ reset[c].pc = "hash"
  /\ reset' = [reset EXCEPT ![c].pc = "transaction"]
  /\ UNCHANGED <<now, jobVars, response, users, userOfEmployee, invites, resetTokens,
                 accept, sseVars>>

\* The transaction: user.update by id, passwordResetToken.update by id.
\* Neither update has a condition on used.
resetTransaction(c) ==
  /\ reset[c].pc = "transaction"
  /\ users' = [users EXCEPT ![reset[c].userId].password = hash(reset[c].newPassword)]
  /\ resetTokens' = { IF r.token = reset[c].token THEN [r EXCEPT !.used = TRUE] ELSE r :
                        r \in resetTokens }
  /\ reset' = [reset EXCEPT ![c].pc = "done", ![c].outcome = "success"]
  /\ UNCHANGED <<now, jobVars, response, userOfEmployee, invites, accept, sseVars>>

\* inviteEmployee(employeeId, organizationId, userRole, data) by a user of
\* the organization: the checks, then the transaction that creates the
\* inactive user and links the employee.  The invite token is generated and
\* returned or logged; it is not stored.  invites is the history of the
\* tokens and the users they were generated for.
inviteEmployee ==
  /\ Cardinality(invites) < Len(NewUserIds)
  /\ \E by \in {"u1", "u2"}, employeeId \in {"e1", "e2", "e4", "e6"} :
       IF /\ IsPrivileged(users[by].role)
          /\ Employees[employeeId].organizationId = users[by].organizationId
          /\ Employees[employeeId].deletedAt = NULL
          /\ userOfEmployee[employeeId] = NULL
          /\ UserByEmail(employeeId) = {}
         THEN LET id == NewUserIds[Cardinality(invites) + 1]
                  inviteToken == InviteTokenPool[Cardinality(invites) + 1]
              IN  /\ users' = (id :> [organizationId |-> users[by].organizationId,
                                      role |-> "USER", isActive |-> FALSE,
                                      email |-> employeeId,
                                      password |-> hash("temporary")]) @@ users
                  /\ userOfEmployee' = [userOfEmployee EXCEPT ![employeeId] = id]
                  /\ invites' = invites \cup {[token |-> inviteToken, userId |-> id]}
         ELSE UNCHANGED <<users, userOfEmployee, invites>>
  /\ UNCHANGED <<now, jobVars, response, resetTokens, reset, accept, sseVars>>

\* acceptInvite({token, password}): the token is not read; findFirst takes
\* an inactive user, whichever the database returns first.  changed is a
\* history of the accounts whose isActive or password the call has written.
acceptInvite ==
  /\ \E token \in Elements(InviteTokenPool) \cup {"i0"} :
       LET inactive == { u \in DOMAIN users : ~users[u].isActive }
       IN  IF inactive = {}
             THEN /\ accept' = [outcome |-> "AuthenticationError", token |-> token,
                                userId |-> NULL, changed |-> {}]
                  /\ UNCHANGED users
             ELSE \E user \in inactive :
                    /\ users' = [users EXCEPT ![user].password = hash("accepted"),
                                              ![user].isActive = TRUE]
                    /\ accept' = [outcome |-> "success", token |-> token,
                                  userId |-> user, changed |-> {user}]
  /\ UNCHANGED <<now, jobVars, response, userOfEmployee, invites, resetTokens, reset,
                 sseVars>>

\* The password reset flow.
ResetNext ==
  \/ requestPasswordReset
  \/ expire
  \/ \E c \in ResetCalls : resetFind(c)
  \/ \E c \in ResetCalls : resetHash(c)
  \/ \E c \in ResetCalls : resetTransaction(c)

ResetSpec == Init /\ [][ResetNext]_vars

\* The invitation flow.
InviteNext ==
  \/ inviteEmployee
  \/ acceptInvite

InviteSpec == Init /\ [][InviteNext]_vars

\* ========================================================= event streams
\* src/unnamed/part_020 (NotificationRealtimeService).  connections is the
\* Map as the set of its entries, one per key; responses are the Response
\* objects in the order of their arrival, each with the connectionId that
\* its 'close' and 'error' listeners have captured, whether the stream is
\* still open, and the number of events written to it.
StreamUsers == {"u1", "u5"}
ResponseIds == 1..Len(responses)

\* this.connections.set(connectionId, entry)
MapSet(map, entry) ==
  { c \in map : c.connectionId # entry.connectionId } \cup {entry}

\* this.connections.delete(connectionId)
MapDelete(map, connectionId) == { c \in map : c.connectionId # connectionId }

\* response.write(...) on each of the given entries.
WriteTo(entries) ==
  [h \in ResponseIds |->
     IF \E c \in entries : c.response = h
       THEN [responses[h] EXCEPT !.received = @ + 1]
       ELSE responses[h]]

CanWrite(entries) == \A c \in entries : responses[c.response].received < MaxReceived

\* Date.now() moves on to the next millisecond.
millisecond ==
  /\ millis < MaxMillis
  /\ millis' = millis + 1
  /\ UNCHANGED <<now, jobVars, response, authVars, connections, responses>>

\* addConnection(userId, organizationId, response): the key is
\* `${userId}-${Date.now()}`; the 'connected' event is written, the entry
\* is stored and the listeners are registered.
addConnection ==
  /\ Len(responses) < MaxResponses
  /\ \E userId \in StreamUsers :
       LET connectionId == <<userId, millis>>
           organizationId == Users[userId].organizationId
           h == Len(responses) + 1
       IN  /\ connections' = MapSet(connections,
                               [connectionId |-> connectionId, userId |-> userId,
                                organizationId |-> organizationId, response |-> h])
           /\ responses' = Append(responses,
                             [userId |-> userId, organizationId |-> organizationId,
                              connectionId |-> connectionId, open |-> TRUE,
                              received |-> 1])
  /\ UNCHANGED <<now, jobVars, response, authVars, millis>>

\* response.on('close'): the client has gone; the listener deletes the key
\* it captured.
close(h) ==
  /\ h \in ResponseIds
  /\ responses[h].open
  /\ responses' = [responses EXCEPT ![h].open = FALSE]
  /\ connections' = MapDelete(connections, responses[h].connectionId)
  /\ UNCHANGED <<now, jobVars, response, authVars, millis>>

\* response.on('error'): the stream has failed; the same deletion.
error(h) ==
  /\ h \in ResponseIds
  /\ responses[h].open
  /\ responses' = [responses EXCEPT ![h].open = FALSE]
  /\ connections' = MapDelete(connections, responses[h].connectionId)
  /\ UNCHANGED <<now, jobVars, response, authVars, millis>>

\* sendNotificationToUser(userId, notification): one write to every entry
\* of the user.  A write to an open stream does not throw.
sendNotificationToUser ==
  /\ \E userId \in StreamUsers :
       LET userConnections == { c \in connections : c.userId = userId }
       IN  /\ CanWrite(userConnections)
           /\ responses' = WriteTo(userConnections)
  /\ UNCHANGED <<now, jobVars, response, authVars, connections, millis>>

\* broadcastToOrganization(organizationId, notification, excludeUserId)
broadcastToOrganization ==
  /\ \E organizationId \in Elements(Organizations), excludeUserId \in {NULL, "u1"} :
       LET orgConnections == { c \in connections : /\ c.organizationId = organizationId
                                                    /\ c.userId # excludeUserId }
       IN  /\ CanWrite(orgConnections)
           /\ responses' = WriteTo(orgConnections)
  /\ UNCHANGED <<now, jobVars, response, authVars, connections, millis>>

StreamNext ==
  \/ millisecond
  \/ addConnection
  \/ \E h \in 1..MaxResponses : close(h)
  \/ \E h \in 1..MaxResponses : error(h)
  \/ sendNotificationToUser
  \/ broadcastToOrganization

StreamSpec == Init /\ [][StreamNext]_vars

\* ================================================================ claims
Running(r) == run[r].pc \notin {"idle", "done"}
CallSet == BagToSet(calls)
FailedCalls(r) == { c \in CallSet : c.run = r /\ ~c.ok }
Called(r, site, d, u) ==
  \E c \in CallSet : c.run = r /\ c.site = site /\ c.documentId = d /\ c.userId = u
NotifCount(r, d, u, type) ==
  CountIn(notifs, LAMBDA n : n.run = r /\ n.documentId = d /\ n.userId = u /\ n.type = type)
MailCount(r, d, u) ==
  CountIn(mail, LAMBDA m : m.run = r /\ m.documentId = d /\ m.to = Users[u].email)

\* C1: at most one expiry scan is executing at any time; a trigger that
\* arrives while a scan is in progress does nothing.
C1_AtMostOneScan == Cardinality({ r \in Triggers : Running(r) }) <= 1

\* C2: in a finished run that obtained the list of organizations, the
\* expiring-documents query was attempted for every organization and every
\* configured threshold, whatever failed on the way.
C2_EveryQueryAttempted ==
  \A r \in Triggers :
    ( /\ run[r].pc = "done"
      /\ \E c \in CallSet : c.run = r /\ c.site = "organizations" /\ c.ok )
    => \A i \in 1..Len(Organizations), j \in 1..Len(WarningDays) :
         \E c \in CallSet : /\ c.run = r /\ c.site = "query"
                            /\ c.organizationId = Organizations[i]
                            /\ c.warningDays = WarningDays[j]

C2_Witness ==
  \E r \in Triggers :
    /\ run[r].pc = "done" /\ run[r].summary
    /\ \E c \in FailedCalls(r) : c.site = "query" /\ c.warningDays = 30

\* C3: a run never rejects: whichever call throws, executeJob resolves.
C3_NeverRejects ==
  \A r \in Triggers :
    /\ run[r].outcome # "rejected"
    /\ run[r].pc = "done" => run[r].outcome = "resolved"

C3_Witness ==
  \E r \in Triggers :
    /\ run[r].pc = "done" /\ run[r].outcome = "resolved"
    /\ \E c \in FailedCalls(r) : c.site = "organizations"

\* C4: the employee-facing step creates a notification only for a document
\* whose employee has a linked user, and then exactly one REMINDER, addressed
\* to that user; otherwise it creates no notification for anyone.
C4_ReminderOnlyForLinkedUser ==
  \A n \in BagToSet(notifs) :
    n.type = "REMINDER" =>
      /\ employeeUser(n.documentId) # NULL
      /\ n.userId = employeeUser(n.documentId)
      /\ NotifCount(n.run, n.documentId, n.userId, "REMINDER") = 1

\* C5: when the manager list of a document was obtained, every manager in it
\* had its ALERT notification attempted, whatever failed for another manager.
C5_EveryManagerAttempted ==
  \A r \in Triggers : \A st \in run[r].docStats :
    ( /\ st.warningDays <= 7
      /\ \E c \in CallSet : /\ c.run = r /\ c.site = "adminUsers"
                            /\ c.documentId = st.documentId /\ c.ok )
    => \A m \in adminUsers(st.organizationId) :
         Called(r, "adminNotification", st.documentId, m)

\* C6: in a finished run without any failure, a selected document whose
\* employee has a linked user got exactly one REMINDER and one email for that
\* user; at a threshold of at most 7 days every active manager of the
\* organization got exactly one ALERT and one email besides, and at a larger
\* threshold nobody but the employee's user got anything.
C6_NoFailureFanOut ==
  \A sel \in selected :
    LET r == sel.run
    IN  ( run[r].pc = "done" /\ run[r].summary /\ FailedCalls(r) = {} ) =>
          \A d \in sel.documents :
            LET u == employeeUser(d)
                managers == IF sel.warningDays <= 7
                              THEN adminUsers(sel.organizationId) ELSE {}
            IN  u # NULL =>
                  \A x \in UserIds :
                    /\ NotifCount(r, d, x, "REMINDER") = (IF x = u THEN 1 ELSE 0)
                    /\ NotifCount(r, d, x, "ALERT") = (IF x \in managers THEN 1 ELSE 0)
                    /\ MailCount(r, d, x) = (IF x = u THEN 1 ELSE 0)
                                            + (IF x \in managers THEN 1 ELSE 0)

C6_Witness ==
  \E r \in Triggers :
    /\ run[r].pc = "done" /\ run[r].summary /\ FailedCalls(r) = {}
    /\ \E s7 \in selected : s7.run = r /\ s7.warningDays = 7 /\ "d1" \in s7.documents
    /\ \E s14 \in selected : s14.run = r /\ s14.warningDays = 14 /\ "d7" \in s14.documents
    /\ NotifCount(r, "d1", "u2", "ALERT") = 1
    /\ NotifCount(r, "d1", "u3", "ALERT") = 1
    /\ NotifCount(r, "d7", "u1", "REMINDER") = 1
    /\ MailCount(r, "d7", "u1") = 1

\* C7: after a failed email to the employee's user the REMINDER already
\* created is in place and counted, and for a threshold of at most 7 days
\* the manager fan-out of the same document is still attempted.
C7_EmailFailureIsolated ==
  \A c \in CallSet :
    ( c.site = "employeeEmail" /\ ~c.ok ) =>
      LET r == c.run
          d == c.documentId
          inFanOut == /\ run[r].pc \in {"adminUsers", "adminNotification", "adminEmail"}
                      /\ curDoc(run[r]) = d
      IN  /\ NotifCount(r, d, c.userId, "REMINDER") = 1
          /\ inFanOut => run[r].notifications >= 1
          /\ \A st \in run[r].docStats : st.documentId = d => st.notifications >= 1
          /\ c.warningDays <= 7 =>
               \/ run[r].pc = "adminUsers" /\ curDoc(run[r]) = d
               \/ Called(r, "adminUsers", d, NULL)

C7_Witness ==
  \E r \in Triggers :
    /\ \E c \in FailedCalls(r) : c.site = "employeeEmail" /\ c.documentId = "d1"
    /\ \E st \in run[r].docStats : st.documentId = "d1" /\ st.notifications = 3
    /\ NotifCount(r, "d1", "u2", "ALERT") = 1

\* C8: the counts a fan-out returns for a document equal the notification
\* rows created and the emails sent for it, and no call is attempted twice.
C8_CountsMatchEffects ==
  /\ \A r \in Triggers : \A st \in run[r].docStats :
       /\ st.notifications =
            CountIn(notifs, LAMBDA n : n.run = r /\ n.documentId = st.documentId)
       /\ st.emails =
            CountIn(mail, LAMBDA m : m.run = r /\ m.documentId = st.documentId)
  /\ \A c \in CallSet : calls[c] = 1

\* C9: a run that reached its summary after catching a failure at
\* organization, threshold, document or recipient level reports an error
\* count greater than zero.
C9_FailuresCounted ==
  \A r \in Triggers :
    ( /\ run[r].pc = "done" /\ run[r].summary
      /\ \E c \in FailedCalls(r) : c.site # "organizations" )
    => run[r].errors > 0

\* C10: a query for organization o and threshold N made at time t returns
\* exactly the documents of o that are not soft-deleted and expire in
\* [start of day(t) + N days, start of day(t) + N + 1 days); a document
\* expiring exactly at the upper bound is not returned.
StartOfToday(t) == (t \div DayLen) * DayLen
ExpiresIn(d, lo, hi) ==
  \E e \in lo..(hi - 1) : Documents[d].expiresAt = <<e>>

C10_HalfOpenWindow ==
  \A sel \in selected :
    LET lo == StartOfToday(sel.at) + sel.warningDays * DayLen
        hi == StartOfToday(sel.at) + (sel.warningDays + 1) * DayLen
    IN  /\ sel.documents =
             { d \in DocIds : /\ Documents[d].organizationId = sel.organizationId
                              /\ Documents[d].deletedAt = NULL
                              /\ ExpiresIn(d, lo, hi) }
        /\ \A d \in DocIds : Documents[d].expiresAt = <<hi>> => d \notin sel.documents

C10_Witness ==
  /\ \E sel \in selected :
       /\ sel.at % DayLen # 0
       /\ sel.warningDays = 7 /\ sel.documents = {"d1"}
  /\ \E sel \in selected :
       /\ sel.at % DayLen # 0
       /\ sel.warningDays = 1 /\ sel.organizationId = "o2" /\ sel.documents = {}
       /\ Documents["d3"].expiresAt =
            <<StartOfToday(sel.at) + (sel.warningDays + 1) * DayLen>>

\* C11: with unchanged documents, a (document, threshold) pair is selected
\* on at most one calendar day, and within one run a document is selected
\* for at most one threshold.
C11_OncePerThreshold ==
  \A s1, s2 \in selected : \A d \in s1.documents \cap s2.documents :
    /\ s1.warningDays = s2.warningDays => StartOfToday(s1.at) = StartOfToday(s2.at)
    /\ s1.run = s2.run => s1.warningDays = s2.warningDays

C11_Witness ==
  \E s1, s2 \in selected :
    /\ s1.run # s2.run
    /\ s1.organizationId = "o1" /\ s2.organizationId = "o1"
    /\ s1.warningDays = 7 /\ s2.warningDays = 7
    /\ StartOfToday(s1.at) < StartOfToday(s2.at)
    /\ "d1" \in s1.documents /\ "d1" \notin s2.documents
    /\ \E s3 \in selected : s3.run = s1.run /\ s3.warningDays = 14 /\ "d7" \in s3.documents

\* C12: a run entered after a complete, failure-free run of the same calendar
\* day creates no notification and sends no email.
C12_SecondRunAddsNothing ==
  \A r \in Triggers : \A q \in run[r].after :
    ( /\ run[q].summary /\ FailedCalls(q) = {}
      /\ StartOfToday(run[q].startTime) = StartOfToday(run[r].startTime) )
    => /\ CountIn(notifs, LAMBDA n : n.run = r) = 0
       /\ CountIn(mail, LAMBDA m : m.run = r) = 0

\* ------------------------------------------------- compliance claims
LiveDocs == { d \in DocIds : Documents[d].deletedAt = NULL }
LiveDocsOf(employeeId) == { d \in LiveDocs : Documents[d].employeeId = employeeId }
LiveDocsIn(organizationId) == { d \in LiveDocs : Documents[d].organizationId = organizationId }
Expired(d, t) == \E e \in 0..(t - 1) : Documents[d].expiresAt = <<e>>
StatusOf(d, t) == getComplianceStatus(Documents[d].expiresAt, DefaultWarningDays, t)
WorstOf(S, t) ==
  IF \E d \in S : StatusOf(d, t) = "RED" THEN "RED"
  ELSE IF \E d \in S : StatusOf(d, t) = "YELLOW" THEN "YELLOW"
  ELSE "GREEN"
Range(q) == { q[i] : i \in 1..Len(q) }
Answered(op) == response.op = op /\ response.result.error = NULL

\* C13: a soft-deleted document is never returned by the query of the
\* expiry scan and never counts in a view: employee compliance, organization
\* compliance, compliance by type, critical issues and metrics list and count
\* the live documents only, and every status is the worst of live documents.
C13_DeletedNeverCounts ==
  /\ response.op = "getDocumentsExpiringIn" => response.documents \subseteq LiveDocs
  /\ Answered("getEmployeeCompliance") =>
       /\ { x.documentId : x \in Range(response.result.documents) }
            = LiveDocsOf(response.employeeId)
       /\ response.result.status = WorstOf(LiveDocsOf(response.employeeId), response.at)
  /\ Answered("getOrganizationCompliance") =>
       \A x \in Range(response.result.employees) :
         x.status = WorstOf(LiveDocsOf(x.employeeId), response.at)
  /\ Answered("getComplianceByType") =>
       \A g \in Range(response.result.types) :
         { x.documentId : x \in Range(g.documents) }
           = { d \in LiveDocsIn(Users[response.user].organizationId) :
                 Documents[d].type = g.documentType /\ Documents[d].employeeId # NULL }
  /\ Answered("getCriticalComplianceIssues") =>
       \A x \in Range(response.result.issues) :
         { y.id : y \in Range(x.expiredDocuments) }
           = { d \in LiveDocsOf(x.employeeId) : Expired(d, response.at) }
  /\ Answered("getComplianceMetrics") =>
       LET user == response.user
           scope == IF IsPrivileged(Users[user].role)
                      THEN LiveDocsIn(response.organizationId)
                      ELSE UNION { LiveDocsOf(e) : e \in employeeOfUser(user) }
       IN  /\ response.result.totalDocuments = Cardinality(scope)
           /\ response.result.expiredDocuments
                = Cardinality({ d \in scope : Expired(d, response.at) })
           /\ response.result.documentsExpiringSoon
                = Cardinality({ d \in scope :
                    \E e \in response.at..(response.at + 30 * DayLen) :
                      Documents[d].expiresAt = <<e>> })

\* e1 has the live documents d1, d6, d7 (YELLOW) and the soft-deleted d4 and
\* d10, of which d10 is expired.
C13_Witness ==
  /\ Answered("getEmployeeCompliance")
  /\ response.employeeId = "e1"
  /\ Documents["d10"].employeeId = "e1" /\ Documents["d10"].deletedAt # NULL
  /\ Expired("d10", response.at)
  /\ response.result.status = "YELLOW"
  /\ Len(response.result.documents) = 3

\* C14: a document without an expiry date is GREEN at any time, with the
\* default warning period and with none, is selected by no query of the expiry scan, and no
\* notification or email of a run is about it.
C14_NoExpiryGreenAndSilent ==
  \A d \in DocIds : Documents[d].expiresAt = <<>> =>
    /\ \A w \in {0, DefaultWarningDays} :
         getComplianceStatus(Documents[d].expiresAt, w, now) = "GREEN"
    /\ \A sel \in selected : d \notin sel.documents
    /\ \A c \in CallSet : c.documentId # d
    /\ \A n \in BagToSet(notifs) : n.documentId # d
    /\ \A m \in BagToSet(mail) : m.documentId # d

\* d6 has no expiry date; d1 and d7 belong to the same employee.
C14_Witness ==
  \E r \in Triggers :
    /\ run[r].pc = "done" /\ run[r].summary /\ FailedCalls(r) = {}
    /\ Documents["d6"].expiresAt = <<>> /\ Documents["d6"].deletedAt = NULL
    /\ Documents["d6"].employeeId = Documents["d1"].employeeId
    /\ NotifCount(r, "d1", "u1", "REMINDER") = 1
    /\ \A n \in BagToSet(notifs) : n.documentId # "d6"

\* The number of whole days that covers k ticks (k / DayLen rounded up).
DaysCovering(k) == CHOOSE n \in -40..40 : (n - 1) * DayLen < k /\ k <= n * DayLen

\* C15: for an expiry date e and the clock reading t the status is RED
\* exactly if e < t, YELLOW exactly if e >= t and the day count is within
\* 0..30, GREEN otherwise and for a missing date; 30 days ahead is YELLOW and
\* 31 days ahead is GREEN.
C15_StatusByExpiry ==
  response.op = "getComplianceStatus" =>
    LET e  == response.expiresAt
        t  == response.at
        st == response.status
    IN  /\ st \in {"GREEN", "YELLOW", "RED"}
        /\ e = <<>> => st = "GREEN"
        /\ e # <<>> =>
             /\ st = "RED" <=> e[1] < t
             /\ st = "YELLOW" <=> (e[1] >= t /\ DaysCovering(e[1] - t) \in 0..30)
             /\ e[1] = t + 30 * DayLen => st = "YELLOW"
             /\ e[1] = t + 31 * DayLen => st = "GREEN"

C15_Witness ==
  /\ response.op = "getComplianceStatus"
  /\ response.expiresAt = <<response.at + 30 * DayLen>>
  /\ response.status = "YELLOW"

\* C16: the day count agrees with the status: for a RED document it is
\* negative and formatDocumentCompliance reports that number, for an expiry
\* date after the clock reading it is at least 1, and it is missing only for
\* a document without an expiry date.
C16_DayCountAgreesWithStatus ==
  response.op = "formatDocumentCompliance" =>
    LET e == response.expiresAt
        t == response.at
        days == response.days
        f == response.formatted
    IN  /\ f.status = "RED" =>
             /\ days # <<>> /\ days[1] < 0
             /\ f.daysUntilExpiry = days
        /\ (e # <<>> /\ e[1] > t) => (days # <<>> /\ days[1] >= 1)
        /\ (days = <<>> \/ f.daysUntilExpiry = <<>>) => e = <<>>

\* C17: the status of a list of documents is the worst of their statuses,
\* GREEN for the empty list, the same for every order of the list, and
\* getEmployeeCompliance answers the worst status of the employee's live
\* documents.
C17_WorstStatus ==
  /\ response.op = "getEmployeeComplianceStatus" =>
       LET documents == response.documents
           n == Len(documents)
           statuses == { getComplianceStatus(documents[i].expiresAt, DefaultWarningDays,
                                             response.at) : i \in 1..n }
       IN  /\ response.status = ( IF "RED" \in statuses THEN "RED"
                                  ELSE IF "YELLOW" \in statuses THEN "YELLOW"
                                  ELSE "GREEN" )
           /\ \A o \in Perms(1..n) :
                getEmployeeComplianceStatus([i \in 1..n |-> documents[o[i]]], response.at)
                  = response.status
  /\ Answered("getEmployeeCompliance") =>
       response.result.status = WorstOf(LiveDocsOf(response.employeeId), response.at)

C17_Witness ==
  /\ response.op = "getEmployeeComplianceStatus"
  /\ Len(response.documents) = 3
  /\ getComplianceStatus(response.documents[1].expiresAt, DefaultWarningDays, response.at)
       = "YELLOW"
  /\ getComplianceStatus(response.documents[2].expiresAt, DefaultWarningDays, response.at)
       = "GREEN"
  /\ getComplianceStatus(response.documents[3].expiresAt, DefaultWarningDays, response.at)
       = "RED"
  /\ response.status = "RED"

\* C18: a summary partitions its list: each count is the number of
\* employees with that status, and green + yellow + red = total = the length
\* of the list; so for calculateComplianceSummary, for the answer of
\* getOrganizationCompliance and for the body of GET /dashboard/compliance,
\* with or without a status filter.
HowMany(list, status) == Cardinality({ i \in 1..Len(list) : list[i].status = status })
Partitions(summary, list) ==
  /\ summary.green = HowMany(list, "GREEN")
  /\ summary.yellow = HowMany(list, "YELLOW")
  /\ summary.red = HowMany(list, "RED")
  /\ summary.total = Len(list)
  /\ summary.green + summary.yellow + summary.red = summary.total

C18_SummaryPartitions ==
  /\ response.op = "calculateComplianceSummary" =>
       Partitions(response.summary, response.employees)
  /\ Answered("getOrganizationCompliance") =>
       Partitions(response.result.summary, response.result.employees)
  /\ (response.op = "GET /dashboard/compliance" /\ response.body.success) =>
       Partitions(response.body.summary, response.body.employees)

\* The organization o1 has three live employees, one of them RED.
C18_Witness ==
  /\ response.op = "GET /dashboard/compliance" /\ response.body.success
  /\ response.query.status = "RED"
  /\ Len(liveEmployees(Users[response.user].organizationId)) = 3
  /\ Len(response.body.employees) = 1
  /\ response.body.summary = [green |-> 0, yellow |-> 0, red |-> 1, total |-> 1]

\* C19 as stated: with the database answering, a caller of role USER gets
\* AuthorizationError for another employee's record and an answer for the
\* own one; a privileged caller gets an answer for a live employee of the
\* own organization and NotFoundError for an employee of another
\* organization or a soft-deleted one.
LiveIn(employeeId, organizationId) ==
  /\ employeeId \in EmployeeIds
  /\ Employees[employeeId].organizationId = organizationId
  /\ Employees[employeeId].deletedAt = NULL

C19_AccessAsStated ==
  (response.op = "getEmployeeCompliance" /\ response.dbOk) =>
    LET user == response.user
        e    == response.employeeId
        org  == Users[user].organizationId
        err  == response.result.error
    IN  IF IsPrivileged(Users[user].role)
          THEN IF LiveIn(e, org) THEN err = NULL ELSE err = "NotFoundError"
          ELSE IF e \in employeeOfUser(user) THEN err = NULL
               ELSE err = "AuthorizationError"

\* C19, amended: the caller of role USER gets an answer for the own record
\* only if that record is live; for the own soft-deleted record the answer
\* is NotFoundError.
C19_AccessControl ==
  (response.op = "getEmployeeCompliance" /\ response.dbOk) =>
    LET user == response.user
        e    == response.employeeId
        org  == Users[user].organizationId
        err  == response.result.error
        own  == { x \in EmployeeIds : Employees[x].userId = user }
    IN  IF IsPrivileged(Users[user].role)
          THEN IF LiveIn(e, org) THEN err = NULL ELSE err = "NotFoundError"
          ELSE IF e \notin own THEN err = "AuthorizationError"
               ELSE IF LiveIn(e, org) THEN err = NULL
               ELSE err = "NotFoundError"

\* u6 is the user of the soft-deleted employee e5.
C19_Witness ==
  /\ response.op = "getEmployeeCompliance" /\ response.dbOk
  /\ Users[response.user].role = "USER"
  /\ Employees["e5"].userId = response.user /\ Employees["e5"].deletedAt # NULL
  /\ response.employeeId = "e5"
  /\ response.result.error = "NotFoundError"

\* C20: the documents listed for a caller that is not privileged all belong
\* to the caller's own employee record, whatever the filters.
C20_OwnDocumentsOnly ==
  ( /\ response.op = "GET /documents"
    /\ response.result.error = NULL
    /\ ~IsPrivileged(Users[response.user].role) )
  => \A d \in Range(response.result.documents) :
       Documents[d].employeeId \in employeeOfUser(response.user)

\* C21: for a caller that is not privileged, with the database answering,
\* getCriticalComplianceIssues never throws: it answers a list holding at
\* most the caller's own record, and the empty list when the caller has no
\* employee record or no expired document.
C21_PersonalIssuesNeverFail ==
  ( /\ response.op = "getCriticalComplianceIssues" /\ response.dbOk
    /\ ~IsPrivileged(Users[response.user].role) )
  => LET own == { e \in EmployeeIds : Employees[e].userId = response.user }
         res == response.result
     IN  /\ res.error = NULL
         /\ \A x \in Range(res.issues) : x.employeeId \in own
         /\ ( \/ own = {}
              \/ \A e \in own : \A d \in LiveDocsOf(e) : ~Expired(d, response.at) )
            => res.issues = <<>>

\* C22: for a privileged caller getCriticalComplianceIssues lists exactly
\* the live employees of the organization with an expired live document,
\* which are exactly the employees of status RED, each once and with exactly
\* its expired live documents, each of them with daysExpired >= 1.
C22_CriticalAreTheRed ==
  ( Answered("getCriticalComplianceIssues") /\ IsPrivileged(Users[response.user].role) )
  => LET org == Users[response.user].organizationId
         issues == response.result.issues
         listed == { x.employeeId : x \in Range(issues) }
     IN  /\ listed = { e \in EmployeeIds :
                         /\ LiveIn(e, org)
                         /\ \E d \in LiveDocsOf(e) : Expired(d, response.at) }
         /\ listed = { e \in EmployeeIds :
                         LiveIn(e, org) /\ WorstOf(LiveDocsOf(e), response.at) = "RED" }
         /\ Len(issues) = Cardinality(listed)
         /\ \A x \in Range(issues) :
              /\ { y.id : y \in Range(x.expiredDocuments) }
                   = { d \in LiveDocsOf(x.employeeId) : Expired(d, response.at) }
              /\ \A y \in Range(x.expiredDocuments) : y.daysExpired >= 1

\* In o1 only e2 is RED (d9); in o2 the expired d12 belongs to the
\* soft-deleted e5.
C22_Witness ==
  /\ Answered("getCriticalComplianceIssues")
  /\ response.user = "u2"
  /\ Len(response.result.issues) = 1
  /\ response.result.issues[1].employeeId = "e2"
  /\ Len(response.result.issues[1].expiredDocuments) = 1
  /\ response.result.issues[1].expiredDocuments[1].id = "d9"
  /\ response.result.issues[1].expiredDocuments[1].daysExpired = 1

\* C23: for a privileged caller complianceRate is the integer nearest to
\* 100 * (GREEN employees) / (employees), 100 for an organization without
\* employees, and within 0..100; one GREEN, one YELLOW and one RED employee
\* give 33.
GreenIn(organizationId, t) ==
  { e \in EmployeeIds : /\ LiveIn(e, organizationId)
                        /\ WorstOf(LiveDocsOf(e), t) = "GREEN" }

C23_ComplianceRate ==
  ( Answered("getComplianceMetrics") /\ IsPrivileged(Users[response.user].role) )
  => LET org  == response.organizationId
         n    == Cardinality({ e \in EmployeeIds : LiveIn(e, org) })
         g    == Cardinality(GreenIn(org, response.at))
         rate == response.result.complianceRate
         gap  == IF rate * n >= 100 * g THEN rate * n - 100 * g ELSE 100 * g - rate * n
     IN  /\ rate \in 0..100
         /\ n = 0 => rate = 100
         /\ n > 0 => 2 * gap <= n
         /\ (n = 3 /\ g = 1) => rate = 33
         /\ (n = 3 /\ g = 2) => rate = 67

\* o1 has the live employees e1 (YELLOW), e2 (RED) and e4 (GREEN).
C23_Witness ==
  /\ Answered("getComplianceMetrics")
  /\ response.user = "u2" /\ response.organizationId = "o1"
  /\ response.result.totalEmployees = 3
  /\ response.result.complianceSummary = [green |-> 1, yellow |-> 1, red |-> 1]
  /\ response.result.complianceRate = 33

\* C24: in the answer of getComplianceMetrics documentsExpiringSoon is the
\* number of live documents in scope of status YELLOW and expiredDocuments
\* the number of status RED; the scope is the organization for a privileged
\* caller and the caller's own employee record otherwise.
MetricsScope ==
  IF IsPrivileged(Users[response.user].role)
    THEN LiveDocsIn(response.organizationId)
    ELSE UNION { LiveDocsOf(e) : e \in { x \in EmployeeIds :
                                           Employees[x].userId = response.user } }

C24_CountsFollowStatus ==
  Answered("getComplianceMetrics") =>
    /\ response.result.documentsExpiringSoon
         = Cardinality({ d \in MetricsScope : StatusOf(d, response.at) = "YELLOW" })
    /\ response.result.expiredDocuments
         = Cardinality({ d \in MetricsScope : StatusOf(d, response.at) = "RED" })

\* In o2, d5 expires exactly 30 days after the start of day 1 and d8 one
\* tick later.
C24_Witness ==
  /\ Answered("getComplianceMetrics")
  /\ response.user = "u8" /\ response.organizationId = "o2"
  /\ Documents["d5"].expiresAt = <<response.at + 30 * DayLen>>
  /\ Documents["d8"].expiresAt = <<response.at + 30 * DayLen + 1>>
  /\ StatusOf("d5", response.at) = "YELLOW" /\ StatusOf("d8", response.at) = "GREEN"
  /\ response.result.documentsExpiringSoon = 2
  /\ response.result.expiredDocuments = 1

\* ---------------------------------------------------------------- C25
DashboardRoutes ==
  {"GET /dashboard/compliance", "GET /dashboard/compliance/metrics",
   "GET /dashboard/compliance/critical", "GET /dashboard/compliance/types"}

AuthorizationFailure(body) ==
  ~body.success /\ body.code \in {"Insufficient permissions", "AuthorizationError"}

\* What the aggregation service answers the caller of a route that has a
\* personal view.
ServiceAnswer ==
  IF response.op = "GET /dashboard/compliance/metrics"
    THEN getComplianceMetrics(Users[response.user].organizationId,
                              Users[response.user].role, response.user, TRUE, response.at)
    ELSE getCriticalComplianceIssues(Users[response.user].organizationId,
                                     Users[response.user].role, response.user, TRUE,
                                     response.at)

\* C25: every dashboard route rejects the request without a session, and the
\* metrics and critical routes return an authorization failure to an
\* authenticated caller only when the aggregation service itself refuses
\* that caller: whoever the service gives a personal view is given it.
C25_RoutesFollowService ==
  response.op \in DashboardRoutes =>
    /\ response.user = NULL => response.body = Reject("Authentication required")
    /\ ( /\ response.user # NULL
         /\ response.op \in {"GET /dashboard/compliance/metrics",
                             "GET /dashboard/compliance/critical"}
         /\ AuthorizationFailure(response.body) )
       => ServiceAnswer.error = "AuthorizationError"

\* ---------------------------------------------------------------- C26
ServiceOperations ==
  {"getEmployeeCompliance", "getOrganizationCompliance", "getComplianceByType",
   "getCriticalComplianceIssues", "getComplianceMetrics"}

FixedMessages ==
  {"Failed to retrieve employee compliance status",
   "Failed to retrieve organization compliance status",
   "Failed to retrieve compliance by document type",
   "Failed to retrieve critical compliance issues",
   "Failed to retrieve compliance metrics"}

\* C26: an operation of the aggregation service ends with a result, an
\* AuthorizationError, a NotFoundError or an InternalServerError and nothing
\* else; a failed database call never yields a result and, unless the
\* caller is refused first, arrives as an InternalServerError that consists
\* of its class and the fixed message of the operation; a NotFoundError
\* arrives as such, only from getEmployeeCompliance and only for an
\* employee that is not a live employee of the organization.
C26_FourWaysToEnd ==
  response.op \in ServiceOperations =>
    LET result == response.result
    IN  /\ result.error \in {NULL, "AuthorizationError", "NotFoundError",
                             "InternalServerError"}
        /\ result.error = "InternalServerError" =>
             /\ ~response.dbOk
             /\ DOMAIN result = {"error", "message"}
             /\ result.message \in FixedMessages
             /\ result.message # DatabaseFailure.message
        /\ ~response.dbOk => result.error \in {"AuthorizationError", "InternalServerError"}
        /\ result.error = "NotFoundError" =>
             /\ response.op = "getEmployeeCompliance"
             /\ ~LiveIn(response.employeeId, Users[response.user].organizationId)
        /\ result.error = "AuthorizationError" => ~IsPrivileged(Users[response.user].role)

\* The database fails under the metrics of a compliance manager: the
\* InternalServerError of getOrganizationCompliance is caught again.
C26_Witness ==
  /\ response.op = "getComplianceMetrics"
  /\ IsPrivileged(Users[response.user].role)
  /\ ~response.dbOk
  /\ response.result = InternalServerError("Failed to retrieve compliance metrics")

\* ---------------------------------------------------------------- C27
\* C27: a run that has started keeps the job to itself until it has logged
\* its completion summary: no step starts another run while one is in
\* progress, stop() leaves the runs in progress as they are, and a run
\* that has ended has logged the summary.
C27_RunToCompletionAlone ==
  [][ /\ \A r \in Triggers :
           (~Running(r) /\ Running(r)') => \A q \in Triggers \ {r} : ~Running(q)
      /\ (cronJob # NULL /\ cronJob' = NULL) => run' = run
      /\ \A r \in Triggers : (Running(r) /\ run'[r].pc = "done") => run'[r].summary
    ]_vars

\* ---------------------------------------------------------------- C28
Succeeded(token) ==
  { c \in ResetCalls : reset[c].outcome = "success" /\ reset[c].token = token }

\* C28: among the calls of resetPassword that present the same token, at
\* most one changes the password and succeeds, however they interleave,
\* and a call that begins after one has succeeded is rejected with a
\* validation error before it writes anything.
C28_TokenIsSingleUse ==
  /\ \A token \in Elements(ResetTokenPool) : Cardinality(Succeeded(token)) <= 1
  /\ \A c \in ResetCalls :
       reset[c].after # {} => reset[c].pc = "done" /\ reset[c].outcome = "ValidationError"

\* ---------------------------------------------------------------- C29
\* C29: a call of acceptInvite writes isActive and password of no account
\* but the one its token was generated for by inviteEmployee, and with a
\* token that inviteEmployee never generated it fails with an
\* authentication error and writes nothing.
C29_OnlyTheInvitedAccount ==
  accept.outcome # "none" =>
    LET issued == { i \in invites : i.token = accept.token }
    IN  /\ accept.changed \subseteq { i.userId : i \in issued }
        /\ issued = {} => accept.outcome = "AuthenticationError"

\* ---------------------------------------------------------------- C30
OpenResponses == { h \in ResponseIds : responses[h].open }

\* C30: the registry holds exactly the streams that were added and have
\* not closed or failed: every open stream has its own entry, under the key
\* its listeners will delete, so that the sends to its user and the
\* broadcasts to its organization reach it, and every entry is that of an
\* open stream.
C30_RegistryIsTheOpenStreams ==
  /\ \A h \in OpenResponses :
       \E c \in connections : /\ c.connectionId = responses[h].connectionId
                              /\ c.response = h
  /\ \A c \in connections : c.response \in OpenResponses
  /\ Cardinality(connections) = Cardinality(OpenResponses)

====
